---- MODULE Spec2Model ----
(***************************************************************************)
(* Stream broadcast/remux engine of backend/app/stream_merge.py: one       *)
(* session's producer thread, broadcaster thread, replay buffer and        *)
(* consumer queues, the delivery streams opened through GET /stream/{id},  *)
(* the session table with its lazy TTL eviction, wait_hls_prewarm, and     *)
(* wait_first_chunk_merge with the delivery stream that takes over its     *)
(* queue.                                                                  *)
(*                                                                         *)
(* A chunk is a record [seq, len]: len is len(chunk) and seq is the         *)
(* position of the block in the output of the external process, which      *)
(* stands for the chunk's content (two reads of the same position of the    *)
(* same source return the same bytes).  The terminal marker None is the     *)
(* record with seq = 0.                                                     *)
(*                                                                         *)
(* Sizes are scaled: one unit of len stands for a fixed number of bytes,    *)
(* and the queue capacities, the read size and the replay ceiling are the   *)
(* source's constants divided down so that every case (full queue, evicted *)
(* chunk, partial last block) is reached within a small state space.       *)
(***************************************************************************)
EXTENDS Integers, Sequences, FiniteSets, TLC

\* ------------------------------------------- bounds and scaled constants
\* number of consumers that may call _register_consumer on the session
NumConsumers == 2
\* number of blocks the external process writes before it ends, at most
MaxChunks == 2
\* proc.stdout.read(65536): size of a full block, scaled
READ_SIZE == 2
\* _BROADCAST_BUFFER_BYTES (2 MiB), scaled
BROADCAST_BUFFER_BYTES == 3
\* _PREWARM_QUEUE_MAXSIZE (128), scaled
PREWARM_QUEUE_MAXSIZE == 1

\* number of GET /stream/{stream_id} requests made against the session
NumStreams == 2
\* queue.Queue(maxsize=16) of a delivery stream, scaled
DELIVERY_QUEUE_MAXSIZE == 1

\* number of distinct stream ids, standing for the 16^11 values of the first
\* twelve characters of a uuid (eight hex digits, a dash, three hex digits)
NumIds == 2
\* number of create_merge_session / create_hls_session calls, at most
MaxCreates == 3
\* the clock runs from 0 to MaxTime
MaxTime == 4
\* _SESSION_TTL_SEC (3600), scaled
SESSION_TTL_SEC == 2

\* wait_first_chunk_merge(min_buffer_bytes=262144): four full blocks, scaled
FIRST_MIN_BYTES == 3
\* wait_hls_prewarm(min_bytes=65536): one full block, scaled
PREWARM_MIN_BYTES == 2

\* queue.Queue(maxsize=_PREWARM_QUEUE_MAXSIZE * 2)
ConsumerQueueMaxsize == PREWARM_QUEUE_MAXSIZE * 2

Consumers == 1..NumConsumers

Streams == 1..NumStreams

\* the values str(uuid.uuid4())[:12] can take
Ids == 1..NumIds

\* the threads that call get_merge_session: the event loop (the route, the
\* coroutines) and a worker (run() in the executor, the producer thread)
Threads == {"loop", "worker"}

\* Python values kept by DatabaseStorage: a dict {} and what it holds, a
\* string or a dict of strings; a string is named by a number
EmptyDict == [k \in {} |-> 0]
PyStr(x) == [kind |-> "str", v |-> x, items |-> EmptyDict]
PyDict(f) == [kind |-> "dict", v |-> 0, items |-> f]

\* _sessions = {}
NoSessions == [i \in {} |-> 0]

None == [seq |-> 0, len |-> 0]

\* no GET /stream/{stream_id} answered yet
NoResponse == [status |-> 0, accept_ranges |-> "absent", cache_control |-> "absent",
               streaming |-> FALSE]

Chunk(k, l) == [seq |-> k, len |-> l]

\* ------------------------------------------------------------ pure helpers
RECURSIVE SumLen(_)
SumLen(s) == IF s = <<>> THEN 0 ELSE Head(s).len + SumLen(Tail(s))

\* consumers.remove(q): removes the first occurrence, ValueError swallowed
RECURSIVE ListRemove(_, _)
ListRemove(s, x) ==
    IF s = <<>> THEN <<>>
    ELSE IF Head(s) = x THEN Tail(s)
    ELSE <<Head(s)>> \o ListRemove(Tail(s), x)

ListHas(s, x) == \E i \in 1..Len(s) : s[i] = x

IsPrefix(s, t) == Len(s) <= Len(t) /\ SubSeq(t, 1, Len(s)) = s

\* the chunks of a queue history, terminal markers left out
RECURSIVE ChunksOf(_)
ChunksOf(s) ==
    IF s = <<>> THEN <<>>
    ELSE IF Head(s) = None THEN ChunksOf(Tail(s))
    ELSE <<Head(s)>> \o ChunksOf(Tail(s))

RECURSIVE CountNone(_)
CountNone(s) ==
    IF s = <<>> THEN 0
    ELSE (IF Head(s) = None THEN 1 ELSE 0) + CountNone(Tail(s))

\* ------------------------------------------------------------------ state
VARIABLES
    prodPc,          \* _producer_merge: "start", "reading", "finally", "done"
    spawned,         \* number of subprocess.Popen calls made for the session
    emitted,         \* history of broadcast_queue.put: chunks, then None
    broadcast_queue, \* queue.Queue(maxsize=_PREWARM_QUEUE_MAXSIZE)
    bPc,             \* _broadcaster_merge: "get", "lock", "evict", "fanout", "done"
    bChunk,          \* the broadcaster's local `chunk`
    bPending,        \* rest of the snapshot list(consumers) still to be put to
    buffer_list,     \* session["buffer_list"]
    buffer_bytes,    \* the broadcaster's local running total
    buffer_lock,     \* session["buffer_lock"]: the set of threads inside `with buffer_lock`
    relayed,         \* history of the chunks appended to buffer_list
    consumers,       \* session["consumers"]: list of consumer queues (by consumer id)
    cPc,             \* per consumer: "idle", "copied", "live", "done"
    q,               \* per consumer: contents of its queue.Queue
    recv,            \* per consumer: history of what it dequeued
    joinAt,          \* per consumer: Len(relayed) when it registered
    enqAtJoin,       \* per consumer: how much each queue had been given when it registered
    joinedLive,      \* per consumer: it registered before the broadcaster returned
    sPc,             \* per GET: stream_merged_mp4_async is "idle", "open", "ended"
    rPc,             \* per GET: its run() thread is "idle", "start", "reading", "finally", "done"
    rOut,            \* per GET: history of run()'s q.put: chunks, then None
    sq,              \* per GET: contents of its own queue.Queue(maxsize=16)
    yielded,         \* per GET: the chunks yielded to the HTTP response so far
    openRel,         \* per GET: Len(relayed) when the stream was opened
    sessions,        \* _sessions: stream_id -> created_at of the stored session
    now,             \* the clock read by time.time()
    lookup,          \* the last get_merge_session call: its id and what it returned
    notFound,        \* ids a lookup returned None for, with no session stored under them since
    everNotFound,    \* ids a lookup has ever returned None for
    everCreated,     \* ids a create call has ever returned
    created,         \* history of the ids returned by the create calls, in order
    expired,         \* get_merge_session of the session's id returns None from now on
    wPc,             \* per consumer: wait_first_chunk_merge / stream_merged_mp4_async is
                     \* "idle", "lookup", "wait", "ready", "notready", "deliver", "exited"
    prefix,          \* per consumer: `chunks` of wait_first_chunk_merge
    delivered,       \* per consumer: the chunks yielded after first_chunk
    orphan,          \* per consumer: an executor thread left inside chunk_queue.get()
    hPc,             \* wait_hls_prewarm: "idle", "check", "sum", "sleep", "true", "false"
    hDeadline,       \* its `deadline`: "unset", "running", "passed"
    hTotal,          \* its `total`
    filledBefore,    \* the buffer held min_bytes when the deadline passed
    requested,       \* session["requested"]
    response,        \* the answer to the last GET /stream/{stream_id}
    oPc,             \* wait_hls_prewarm on another session, same event loop:
                     \* "idle", "ready", "sleep", "true"
    oFilled,         \* that session's replay buffer holds min_bytes
    lkPc,            \* per thread: get_merge_session is "idle", at its "check", at its "del"
    lkId,            \* per thread: its stream_id
    lkS,             \* per thread: created_at of the `s` it got from _sessions.get
    lkRes,           \* per thread: how its last call ended: "none", "Found",
                     \* "NotFound", "KeyError"
    wLate,           \* per consumer: wait_first_chunk_merge's `deadline` has passed
    entries,         \* activity_log._entries
    logged,          \* history of the entries given to activity_log.add
    got,             \* the last activity_log.get call: its limit, the log it read, its result
    credentials,     \* DatabaseStorage._credentials: identifier -> stored value
    stOp,            \* the last call on the storage: its name, its arguments, and
                     \* _credentials as it was before the call
    devices,         \* table devices: device_id -> name
    defaults,        \* table default_device: the device_id of each of its rows
    devOp            \* the last device request: its name, its device_id, whether it
                     \* succeeded, and the default_device rows before it

prodVars == <<prodPc, spawned, emitted, broadcast_queue>>
bcastVars == <<bPc, bChunk, bPending, buffer_list, buffer_bytes, relayed>>
consVars == <<consumers, cPc, q, recv, joinAt, enqAtJoin, joinedLive>>
httpVars == <<sPc, rPc, rOut, sq, yielded, openRel>>
pipeVars == <<prodVars, bcastVars, buffer_lock, consVars, httpVars>>
tableVars == <<sessions, now, lookup, notFound, everNotFound, everCreated, created>>
delivVars == <<expired, wPc, prefix, delivered, orphan>>
prewarmVars == <<hPc, hDeadline, hTotal, filledBefore>>
\* the session's fields that no code assigns after the session is created
flagVars == <<requested>>
routeVars == <<response>>
otherVars == <<oPc, oFilled>>
raceVars == <<lkPc, lkId, lkS, lkRes>>
lateVars == <<wLate>>
logVars == <<entries, logged, got>>
storeVars == <<credentials, stOp>>
deviceVars == <<devices, defaults, devOp>>
appVars == <<logVars, storeVars, deviceVars>>
sideVars == <<raceVars, lateVars, appVars>>
streamVars == <<pipeVars, tableVars, delivVars, prewarmVars, flagVars, routeVars,
                otherVars, raceVars, lateVars>>
\* what the actions of one session's pipeline leave alone
offPipeVars == <<tableVars, delivVars, prewarmVars, flagVars, routeVars, otherVars, sideVars>>
\* what the session table's operations leave alone
offTableVars == <<pipeVars, delivVars, prewarmVars, flagVars, routeVars, otherVars, sideVars>>
\* what wait_first_chunk_merge and the delivery stream on its queue leave alone
offDelivVars == <<prodVars, bcastVars, buffer_lock, joinAt, enqAtJoin, joinedLive,
                  httpVars, tableVars, prewarmVars, flagVars, routeVars, otherVars, sideVars>>
\* what wait_hls_prewarm leaves alone
offPrewarmVars == <<pipeVars, tableVars, expired, wPc, prefix, delivered, orphan,
                    flagVars, routeVars, otherVars, sideVars>>
vars == <<pipeVars, tableVars, delivVars, prewarmVars, flagVars, routeVars, otherVars, sideVars>>

Init ==
    /\ prodPc = "start"
    /\ spawned = 0
    /\ emitted = <<>>
    /\ broadcast_queue = <<>>
    /\ bPc = "get"
    /\ bChunk = None
    /\ bPending = <<>>
    /\ buffer_list = <<>>
    /\ buffer_bytes = 0
    /\ buffer_lock = {}
    /\ relayed = <<>>
    /\ consumers = <<>>
    /\ cPc = [c \in Consumers |-> "idle"]
    /\ q = [c \in Consumers |-> <<>>]
    /\ recv = [c \in Consumers |-> <<>>]
    /\ joinAt = [c \in Consumers |-> 0]
    /\ enqAtJoin = [c \in Consumers |-> [a \in Consumers |-> 0]]
    /\ joinedLive = [c \in Consumers |-> FALSE]
    /\ sPc = [s \in Streams |-> "idle"]
    /\ rPc = [s \in Streams |-> "idle"]
    /\ rOut = [s \in Streams |-> <<>>]
    /\ sq = [s \in Streams |-> <<>>]
    /\ yielded = [s \in Streams |-> <<>>]
    /\ openRel = [s \in Streams |-> 0]
    /\ sessions = NoSessions
    /\ now = 0
    /\ lookup = [id |-> 0, result |-> "none"]
    /\ notFound = {}
    /\ everNotFound = {}
    /\ everCreated = {}
    /\ created = <<>>
    /\ expired = FALSE
    /\ wPc = [c \in Consumers |-> "idle"]
    /\ prefix = [c \in Consumers |-> <<>>]
    /\ delivered = [c \in Consumers |-> <<>>]
    /\ orphan = [c \in Consumers |-> FALSE]
    /\ hPc = "idle"
    /\ hDeadline = "unset"
    /\ hTotal = 0
    /\ filledBefore = FALSE
    /\ requested = FALSE
    /\ response = NoResponse
    /\ oPc = "idle"
    /\ oFilled = FALSE
    /\ lkPc = [t \in Threads |-> "idle"]
    /\ lkId = [t \in Threads |-> 0]
    /\ lkS = [t \in Threads |-> 0]
    /\ lkRes = [t \in Threads |-> "none"]
    /\ wLate = [c \in Consumers |-> FALSE]
    /\ entries = <<>>
    /\ logged = <<>>
    /\ got = [limit |-> 0, of |-> <<>>, out |-> <<>>]
    /\ credentials = EmptyDict
    /\ stOp = [name |-> "init", id |-> "", arg |-> PyStr(0), before |-> EmptyDict]
    /\ devices = EmptyDict
    /\ defaults = {}
    /\ devOp = [name |-> "init", id |-> 0, ok |-> TRUE, before |-> {}]

\* --------------------------------------------------------------- producer
\* ProducerSpawn with the marker put only after the read loop, not in a
\* finally block: a failed start ends the producer without it
ProducerSpawn_FailureSkipsMarker ==
    /\ prodPc = "start"
    /\ \/ /\ spawned' = spawned + 1
          /\ prodPc' = "reading"
       \/ /\ spawned' = spawned
          /\ prodPc' = "done"
    /\ UNCHANGED <<emitted, broadcast_queue, bcastVars, buffer_lock, consVars, httpVars, offPipeVars>>

\* _run_ffmpeg_merge up to Popen: the session lookup fails or Popen raises
\* (no process, the generator ends with no chunk), or the process starts.
ProducerSpawn ==
    /\ prodPc = "start"
    /\ \/ /\ spawned' = spawned + 1
          /\ prodPc' = "reading"
       \/ /\ spawned' = spawned
          /\ prodPc' = "finally"
    /\ UNCHANGED <<emitted, broadcast_queue, bcastVars, buffer_lock, consVars, httpVars, offPipeVars>>

\* ProducerPut with put_nowait on an unbounded queue: the producer never waits
ProducerPut_Unbounded(l) ==
    /\ prodPc = "reading"
    /\ Len(emitted) < MaxChunks
    /\ IF emitted = <<>> THEN TRUE ELSE emitted[Len(emitted)].len = READ_SIZE
    /\ LET chunk == Chunk(Len(emitted) + 1, l) IN
          /\ emitted' = Append(emitted, chunk)
          /\ broadcast_queue' = Append(broadcast_queue, chunk)
    /\ UNCHANGED <<prodPc, spawned, bcastVars, buffer_lock, consVars, httpVars, offPipeVars>>

\* one pass of `for chunk in iter(lambda: proc.stdout.read(65536), b"")`
\* followed by broadcast_queue.put(chunk), which blocks while the queue is
\* full.  A buffered read returns a full block unless the output ends inside
\* it, so a short block is the last one.
ProducerPut(l) ==
    /\ prodPc = "reading"
    /\ Len(emitted) < MaxChunks
    /\ IF emitted = <<>> THEN TRUE ELSE emitted[Len(emitted)].len = READ_SIZE
    /\ Len(broadcast_queue) < PREWARM_QUEUE_MAXSIZE
    /\ LET chunk == Chunk(Len(emitted) + 1, l) IN
          /\ emitted' = Append(emitted, chunk)
          /\ broadcast_queue' = Append(broadcast_queue, chunk)
    /\ UNCHANGED <<prodPc, spawned, bcastVars, buffer_lock, consVars, httpVars, offPipeVars>>

\* ProducerEnd with a retry: the producer starts the process again
ProducerEnd_Retries ==
    /\ prodPc = "reading"
    /\ prodPc' \in {"finally", "start"}
    /\ UNCHANGED <<spawned, emitted, broadcast_queue, bcastVars, buffer_lock, consVars, httpVars, offPipeVars>>

\* read returns b"" (exit 0 or nonzero), or the read raises: the generator
\* ends, the producer falls into its finally block
ProducerEnd ==
    /\ prodPc = "reading"
    /\ prodPc' = "finally"
    /\ UNCHANGED <<spawned, emitted, broadcast_queue, bcastVars, buffer_lock, consVars, httpVars, offPipeVars>>

\* finally: broadcast_queue.put(None)
ProducerFinally ==
    /\ prodPc = "finally"
    /\ Len(broadcast_queue) < PREWARM_QUEUE_MAXSIZE
    /\ emitted' = Append(emitted, None)
    /\ broadcast_queue' = Append(broadcast_queue, None)
    /\ prodPc' = "done"
    /\ UNCHANGED <<spawned, bcastVars, buffer_lock, consVars, httpVars, offPipeVars>>

\* ------------------------------------------------------------------ lock
BroadcasterThread == [role |-> "broadcaster", id |-> 0]

ConsumerThread(c) == [role |-> "consumer", id |-> c]

\* LockAvailable with the `with buffer_lock` left out
LockAvailable_NoExclusion(lock) == TRUE

\* threading.Lock: `with buffer_lock` enters only when no thread is inside
LockAvailable(lock) == lock = {}

\* ------------------------------------------------------------ event loop
\* wait_hls_prewarm and _register_consumer are coroutines of the one asyncio
\* event loop and take buffer_lock with a plain "with": between two awaits a
\* coroutine owns the loop thread, the wait for the lock included.  The
\* route handler and the delivery generator are resumed by the same loop.
LoopFree == hPc \notin {"check", "sum"}

\* ------------------------------------------------------------ broadcaster
\* chunk = broadcast_queue.get()
BroadcasterGet ==
    /\ bPc = "get"
    /\ broadcast_queue # <<>>
    /\ bChunk' = Head(broadcast_queue)
    /\ broadcast_queue' = Tail(broadcast_queue)
    /\ bPc' = "lock"
    /\ UNCHANGED <<prodPc, spawned, emitted, bPending, buffer_list, buffer_bytes,
                   relayed, buffer_lock, consVars, httpVars, offPipeVars>>

\* with buffer_lock: buffer_list.append(chunk); buffer_bytes += len(chunk)
BroadcasterAppend ==
    /\ bPc = "lock"
    /\ bChunk # None
    /\ LockAvailable(buffer_lock)
    /\ buffer_lock' = buffer_lock \cup {BroadcasterThread}
    /\ buffer_list' = Append(buffer_list, bChunk)
    /\ buffer_bytes' = buffer_bytes + bChunk.len
    /\ relayed' = Append(relayed, bChunk)
    /\ bPc' = "evict"
    /\ UNCHANGED <<prodVars, bChunk, bPending, consVars, httpVars, offPipeVars>>

\* Snapshot with the iteration starting one element late
Snapshot_SkipFirst(cons) == IF cons = <<>> THEN cons ELSE Tail(cons)

\* list(consumers): the copy of the consumer list the fan-out loop iterates
Snapshot(cons) == cons

\* QueuePut of a queue.LifoQueue
QueuePut_Lifo(queue, item) == <<item>> \o queue

\* queue.Queue.put on a queue with room: first in, first out
QueuePut(queue, item) == Append(queue, item)

\* EvictMore with the eviction loop left out
EvictMore_Never(bytes, list) == FALSE

\* EvictMore with >= for >
EvictMore_AtCeiling(bytes, list) == bytes >= BROADCAST_BUFFER_BYTES /\ list # <<>>

\* the test of `while buffer_bytes > _BROADCAST_BUFFER_BYTES and buffer_list`
EvictMore(bytes, list) == bytes > BROADCAST_BUFFER_BYTES /\ list # <<>>

\* one pass of the eviction loop: old = buffer_list.pop(0); buffer_bytes -= len(old)
BroadcasterEvict ==
    /\ bPc = "evict"
    /\ EvictMore(buffer_bytes, buffer_list)
    /\ buffer_list' = Tail(buffer_list)
    /\ buffer_bytes' = buffer_bytes - Head(buffer_list).len
    /\ UNCHANGED <<prodVars, bPc, bChunk, bPending, relayed, buffer_lock, consVars, httpVars, offPipeVars>>

\* BroadcasterSnapshot waiting until somebody is registered before it goes on
BroadcasterSnapshot_WaitsForConsumer ==
    /\ bPc = "evict"
    /\ ~EvictMore(buffer_bytes, buffer_list)
    /\ consumers # <<>>
    /\ bPending' = Snapshot(consumers)
    /\ bPc' = "fanout"
    /\ UNCHANGED <<prodVars, bChunk, buffer_list, buffer_bytes, relayed,
                   buffer_lock, consVars, httpVars, offPipeVars>>

\* the eviction loop ends; `for q in list(consumers)` takes its snapshot
BroadcasterSnapshot ==
    /\ bPc = "evict"
    /\ ~EvictMore(buffer_bytes, buffer_list)
    /\ bPending' = Snapshot(consumers)
    /\ bPc' = "fanout"
    /\ UNCHANGED <<prodVars, bChunk, buffer_list, buffer_bytes, relayed,
                   buffer_lock, consVars, httpVars, offPipeVars>>

\* BroadcasterLockNone returning on None without a word to the consumers
BroadcasterLockNone_TellsNobody ==
    /\ bPc = "lock"
    /\ bChunk = None
    /\ LockAvailable(buffer_lock)
    /\ buffer_lock' = buffer_lock \cup {BroadcasterThread}
    /\ bPending' = <<>>
    /\ bPc' = "fanout"
    /\ UNCHANGED <<prodVars, bChunk, buffer_list, buffer_bytes, relayed, consVars, httpVars, offPipeVars>>

\* chunk is None: with buffer_lock: for q in list(consumers)
BroadcasterLockNone ==
    /\ bPc = "lock"
    /\ bChunk = None
    /\ LockAvailable(buffer_lock)
    /\ buffer_lock' = buffer_lock \cup {BroadcasterThread}
    /\ bPending' = Snapshot(consumers)
    /\ bPc' = "fanout"
    /\ UNCHANGED <<prodVars, bChunk, buffer_list, buffer_bytes, relayed, consVars, httpVars, offPipeVars>>

\* BroadcasterPut with put_nowait in place of put: a full queue is passed
\* over and the fan-out goes on to the next consumer
BroadcasterPut_SkipsFull ==
    /\ bPc = "fanout"
    /\ bPending # <<>>
    /\ q' = IF Len(q[Head(bPending)]) < ConsumerQueueMaxsize
            THEN [q EXCEPT ![Head(bPending)] = QueuePut(@, bChunk)]
            ELSE q
    /\ bPending' = Tail(bPending)
    /\ UNCHANGED <<prodVars, bPc, bChunk, buffer_list, buffer_bytes, relayed,
                   buffer_lock, consumers, cPc, recv, joinAt, enqAtJoin, joinedLive, httpVars, offPipeVars>>

\* q.put(chunk) / q.put(None) on the next queue of the snapshot; blocks
\* while that queue is full
BroadcasterPut ==
    /\ bPc = "fanout"
    /\ bPending # <<>>
    /\ Len(q[Head(bPending)]) < ConsumerQueueMaxsize
    /\ q' = [q EXCEPT ![Head(bPending)] = QueuePut(@, bChunk)]
    /\ bPending' = Tail(bPending)
    /\ UNCHANGED <<prodVars, bPc, bChunk, buffer_list, buffer_bytes, relayed,
                   buffer_lock, consumers, cPc, recv, joinAt, enqAtJoin, joinedLive, httpVars, offPipeVars>>

\* end of the with block: back to broadcast_queue.get(), or return after None
BroadcasterRelease ==
    /\ bPc = "fanout"
    /\ bPending = <<>>
    /\ buffer_lock' = buffer_lock \ {BroadcasterThread}
    /\ bPc' = IF bChunk = None THEN "done" ELSE "get"
    /\ UNCHANGED <<prodVars, bChunk, bPending, buffer_list, buffer_bytes, relayed,
                   consVars, httpVars, offPipeVars>>

\* SeedOf with no replay at all: a new queue starts empty
SeedOf_Nothing(buf) == <<>>

\* -------------------------------------------------------------- consumers
\* SeedOf with the copy loop starting one element late
SeedOf_DropsOldest(buf) == IF buf = <<>> THEN buf ELSE Tail(buf)

\* `for c in buffer_list: q.put(c)` on the new, empty queue
SeedOf(buf) == buf

\* _register_consumer: q = queue.Queue(...); with buffer_lock: for c in
\* buffer_list: q.put(c).  A put on the full new queue blocks for ever, with
\* the lock held: the copy completes only when the buffer fits the queue.
\* Consumers are numbered in the order they call _register_consumer.
RegisterCopy(c) ==
    /\ cPc[c] = "idle"
    /\ \A d \in Consumers : d < c => cPc[d] # "idle"
    /\ LockAvailable(buffer_lock)
    /\ Len(buffer_list) <= ConsumerQueueMaxsize
    /\ buffer_lock' = buffer_lock \cup {ConsumerThread(c)}
    /\ q' = [q EXCEPT ![c] = SeedOf(buffer_list)]
    /\ joinAt' = [joinAt EXCEPT ![c] = Len(relayed)]
    /\ enqAtJoin' = [enqAtJoin EXCEPT ![c] = [a \in Consumers |-> Len(recv[a]) + Len(q[a])]]
    /\ joinedLive' = [joinedLive EXCEPT ![c] = (bPc # "done")]
    /\ cPc' = [cPc EXCEPT ![c] = "copied"]
    /\ UNCHANGED <<prodVars, bcastVars, consumers, recv, httpVars, offPipeVars>>

\* consumers.append(q), end of the with block, return q, unregister
RegisterAdd(c) ==
    /\ cPc[c] = "copied"
    /\ consumers' = Append(consumers, c)
    /\ buffer_lock' = buffer_lock \ {ConsumerThread(c)}
    /\ cPc' = [cPc EXCEPT ![c] = "live"]
    /\ UNCHANGED <<prodVars, bcastVars, q, recv, joinAt, enqAtJoin, joinedLive, httpVars, offPipeVars>>

\* the holder of (queue, unregister) takes the next item: chunk_queue.get().
\* On None the delivery loop breaks and its finally calls unregister().
Dequeue(c) ==
    /\ cPc[c] = "live"
    /\ q[c] # <<>>
    /\ recv' = [recv EXCEPT ![c] = Append(@, Head(q[c]))]
    /\ q' = [q EXCEPT ![c] = Tail(@)]
    /\ IF Head(q[c]) = None
       THEN /\ consumers' = ListRemove(consumers, c)
            /\ cPc' = [cPc EXCEPT ![c] = "done"]
       ELSE UNCHANGED <<consumers, cPc>>
    /\ UNCHANGED <<prodVars, bcastVars, buffer_lock, joinAt, enqAtJoin, joinedLive, httpVars, offPipeVars>>

\* the delivery loop ends early (silence timeout on an empty queue, or the
\* client disconnects): unregister() runs, without taking buffer_lock
Unregister(c) ==
    /\ cPc[c] = "live"
    /\ consumers' = ListRemove(consumers, c)
    /\ cPc' = [cPc EXCEPT ![c] = "done"]
    /\ UNCHANGED <<prodVars, bcastVars, buffer_lock, q, recv, joinAt, enqAtJoin, joinedLive, httpVars, offPipeVars>>

\* ------------------------------------------- delivery through the router
\* GET /stream/{stream_id}: stream_merged finds the session and returns
\* StreamingResponse(stream_merged_mp4_async(stream_id)).  The generator is
\* called without first_chunk and chunk_queue, and no session has a
\* "chunk_queue" key, so it falls through to its last branch: a queue of its
\* own and run() handed to the executor.  Requests are numbered in the
\* order they arrive.
HttpGet(s) ==
    /\ LoopFree
    /\ sPc[s] = "idle"
    /\ \A t \in Streams : t < s => sPc[t] # "idle"
    /\ sPc' = [sPc EXCEPT ![s] = "open"]
    /\ rPc' = [rPc EXCEPT ![s] = "start"]
    /\ openRel' = [openRel EXCEPT ![s] = Len(relayed)]
    /\ UNCHANGED <<prodVars, bcastVars, buffer_lock, consVars, rOut, sq, yielded, offPipeVars>>

\* run(): _run_ffmpeg_stream dispatches to _run_ffmpeg_hls_to_mp4 or
\* _run_ffmpeg_merge, which starts an external process of its own with
\* Popen, or fails to
RunSpawn(s) ==
    /\ rPc[s] = "start"
    /\ \/ /\ spawned' = spawned + 1
          /\ rPc' = [rPc EXCEPT ![s] = "reading"]
       \/ /\ spawned' = spawned
          /\ rPc' = [rPc EXCEPT ![s] = "finally"]
    /\ UNCHANGED <<prodPc, emitted, broadcast_queue, bcastVars, buffer_lock, consVars,
                   sPc, rOut, sq, yielded, openRel, offPipeVars>>

\* run(): `for chunk in _run_ffmpeg_stream(stream_id): q.put(chunk)`: the
\* new process reads the source from its beginning
RunPut(s, l) ==
    /\ rPc[s] = "reading"
    /\ Len(rOut[s]) < MaxChunks
    /\ IF rOut[s] = <<>> THEN TRUE ELSE rOut[s][Len(rOut[s])].len = READ_SIZE
    /\ Len(sq[s]) < DELIVERY_QUEUE_MAXSIZE
    /\ LET chunk == Chunk(Len(rOut[s]) + 1, l) IN
          /\ rOut' = [rOut EXCEPT ![s] = Append(@, chunk)]
          /\ sq' = [sq EXCEPT ![s] = QueuePut(@, chunk)]
    /\ UNCHANGED <<prodVars, bcastVars, buffer_lock, consVars,
                   sPc, rPc, yielded, openRel, offPipeVars>>

\* the process's output ends, or a read raises: the generator ends
RunEnd(s) ==
    /\ rPc[s] = "reading"
    /\ rPc' = [rPc EXCEPT ![s] = "finally"]
    /\ UNCHANGED <<prodVars, bcastVars, buffer_lock, consVars,
                   sPc, rOut, sq, yielded, openRel, offPipeVars>>

\* run(): q.put(None)
RunPutNone(s) ==
    /\ rPc[s] = "finally"
    /\ Len(sq[s]) < DELIVERY_QUEUE_MAXSIZE
    /\ rOut' = [rOut EXCEPT ![s] = Append(@, None)]
    /\ sq' = [sq EXCEPT ![s] = QueuePut(@, None)]
    /\ rPc' = [rPc EXCEPT ![s] = "done"]
    /\ UNCHANGED <<prodVars, bcastVars, buffer_lock, consVars,
                   sPc, yielded, openRel, offPipeVars>>

\* the delivery loop: chunk = q.get(); break on None, else yield chunk
StreamYield(s) ==
    /\ LoopFree
    /\ sPc[s] = "open"
    /\ sq[s] # <<>>
    /\ sq' = [sq EXCEPT ![s] = Tail(@)]
    /\ IF Head(sq[s]) = None
       THEN /\ sPc' = [sPc EXCEPT ![s] = "ended"]
            /\ yielded' = yielded
       ELSE /\ yielded' = [yielded EXCEPT ![s] = Append(@, Head(sq[s]))]
            /\ sPc' = sPc
    /\ UNCHANGED <<prodVars, bcastVars, buffer_lock, consVars,
                   rPc, rOut, openRel, offPipeVars>>

\* the delivery loop: nothing within 45 s (asyncio.TimeoutError): break
StreamTimeout(s) ==
    /\ LoopFree
    /\ sPc[s] = "open"
    /\ sq[s] = <<>>
    /\ sPc' = [sPc EXCEPT ![s] = "ended"]
    /\ UNCHANGED <<prodVars, bcastVars, buffer_lock, consVars,
                   rPc, rOut, sq, yielded, openRel, offPipeVars>>

\* ---------------------------------------------------------- session table
\* _sessions[stream_id] = {...}: stores under the id, replacing what is there
TablePut(tbl, id, t) ==
    [i \in (DOMAIN tbl) \cup {id} |-> IF i = id THEN t ELSE tbl[i]]

\* del _sessions[stream_id]
TableDel(tbl, id) == [i \in (DOMAIN tbl) \ {id} |-> tbl[i]]

\* Expired with >= for >
Expired_AtTtl(tbl, t, id) == t - tbl[id] >= SESSION_TTL_SEC

\* time.time() - s["created_at"] > _SESSION_TTL_SEC
Expired(tbl, t, id) == t - tbl[id] > SESSION_TTL_SEC

\* what get_merge_session(id) returns: None, or the session
LookupResult(tbl, t, id) ==
    IF id \notin DOMAIN tbl THEN "NotFound"
    ELSE IF Expired(tbl, t, id) THEN "NotFound"
    ELSE "Found"

\* what get_merge_session(id) leaves in _sessions
LookupTable(tbl, t, id) ==
    IF id \in DOMAIN tbl /\ Expired(tbl, t, id) THEN TableDel(tbl, id) ELSE tbl

\* create_merge_session / create_hls_session: stream_id = str(uuid.uuid4())[:12]
\* is a random value, stored without a look at what the table holds
CreateSession(id) ==
    /\ Len(created) < MaxCreates
    /\ sessions' = TablePut(sessions, id, now)
    /\ everCreated' = everCreated \cup {id}
    /\ created' = Append(created, id)
    /\ notFound' = notFound \ {id}
    /\ UNCHANGED <<now, lookup, everNotFound, offTableVars>>

\* get_merge_session(id), called with any string
GetMergeSession(id) ==
    /\ lookup' = [id |-> id, result |-> LookupResult(sessions, now, id)]
    /\ sessions' = LookupTable(sessions, now, id)
    /\ IF LookupResult(sessions, now, id) = "NotFound"
       THEN /\ notFound' = notFound \cup {id}
            /\ everNotFound' = everNotFound \cup {id}
       ELSE UNCHANGED <<notFound, everNotFound>>
    /\ UNCHANGED <<now, everCreated, created, offTableVars>>

\* time passes
Tick ==
    /\ now < MaxTime
    /\ now' = now + 1
    /\ UNCHANGED <<sessions, lookup, notFound, everNotFound, everCreated, created,
                   offTableVars>>

\* ------------------------------------------------------- wait_hls_prewarm
\* the session's TTL elapses: lookups of its id return None from now on
SessionExpires ==
    /\ ~expired
    /\ expired' = TRUE
    /\ UNCHANGED <<pipeVars, tableVars, wPc, prefix, delivered, orphan, prewarmVars,
                   flagVars, routeVars, otherVars, sideVars>>

\* session = get_merge_session(stream_id); if not session: return False;
\* deadline = time.monotonic() + timeout
PrewarmStart ==
    /\ hPc = "idle"
    /\ IF expired
       THEN /\ hPc' = "false"
            /\ UNCHANGED hDeadline
       ELSE /\ hPc' = "check"
            /\ hDeadline' = "running"
    /\ UNCHANGED <<hTotal, filledBefore, offPrewarmVars>>

\* the clock reaches the deadline
PrewarmDeadline ==
    /\ hDeadline = "running"
    /\ hDeadline' = "passed"
    /\ filledBefore' = (SumLen(buffer_list) >= PREWARM_MIN_BYTES)
    /\ UNCHANGED <<hPc, hTotal, offPrewarmVars>>

\* PrewarmCheck with the loop test the wrong way round
PrewarmCheck_TestInverted ==
    /\ hPc = "check"
    /\ hPc' = IF hDeadline = "running" THEN "false" ELSE "sum"
    /\ UNCHANGED <<hDeadline, hTotal, filledBefore, offPrewarmVars>>

\* while time.monotonic() < deadline: ... ; after the loop: return False
PrewarmCheck ==
    /\ hPc = "check"
    /\ hPc' = IF hDeadline = "running" THEN "sum" ELSE "false"
    /\ UNCHANGED <<hDeadline, hTotal, filledBefore, offPrewarmVars>>

\* with buffer_lock: total = sum(len(c) for c in buffer_list);
\* if total >= min_bytes: return True
PrewarmSum ==
    /\ hPc = "sum"
    /\ LockAvailable(buffer_lock)
    /\ hTotal' = SumLen(buffer_list)
    /\ hPc' = IF SumLen(buffer_list) >= PREWARM_MIN_BYTES THEN "true" ELSE "sleep"
    /\ UNCHANGED <<hDeadline, filledBefore, offPrewarmVars>>

\* await asyncio.sleep(0.15) returns
PrewarmWake ==
    /\ hPc = "sleep"
    /\ hPc' = "check"
    /\ UNCHANGED <<hDeadline, hTotal, filledBefore, offPrewarmVars>>

\* ------------------------- wait_first_chunk_merge and the delivery stream
\* wait_first_chunk_merge: session = get_merge_session(stream_id);
\* if not session: return None, None, None
WaitStart(c) ==
    /\ wPc[c] = "idle"
    /\ cPc[c] = "idle"
    /\ \A d \in Consumers : d < c => wPc[d] # "idle"
    /\ wPc' = [wPc EXCEPT ![c] = IF expired THEN "notready" ELSE "lookup"]
    /\ UNCHANGED <<consumers, cPc, q, recv, expired, prefix, delivered, orphan, offDelivVars>>

\* _register_consumer: session = get_merge_session(stream_id);
\* if not session: return None, None, upon which the caller returns NotReady
RegisterLookup(c) ==
    /\ wPc[c] = "lookup"
    /\ wPc' = [wPc EXCEPT ![c] = IF expired THEN "notready" ELSE "wait"]
    /\ UNCHANGED <<consumers, cPc, q, recv, expired, prefix, delivered, orphan, offDelivVars>>

\* the rest of _register_consumer, called from wait_first_chunk_merge
WaitRegisterCopy(c) == wPc[c] = "wait" /\ RegisterCopy(c)

\* WaitTimeout returning NotReady with its queue left in the consumer list
WaitTimeout_KeepsConsumer(c) ==
    /\ wPc[c] = "wait"
    /\ cPc[c] = "live"
    /\ q[c] = <<>>
    /\ orphan' = [orphan EXCEPT ![c] = TRUE]
    /\ wPc' = [wPc EXCEPT ![c] = IF prefix[c] = <<>> THEN "notready" ELSE "ready"]
    /\ UNCHANGED <<consumers, cPc, q, recv, expired, prefix, delivered, offDelivVars>>

\* asyncio.wait_for(run_in_executor(get_next), remaining) raises TimeoutError:
\* nothing came within `remaining`.  With chunks: return them, the queue and
\* unregister; with none: unregister() and NotReady.  The executor thread is
\* not stopped by the cancellation: it stays inside chunk_queue.get().
WaitTimeout(c) ==
    /\ wPc[c] = "wait"
    /\ cPc[c] = "live"
    /\ q[c] = <<>>
    /\ orphan' = [orphan EXCEPT ![c] = TRUE]
    /\ IF prefix[c] = <<>>
       THEN /\ consumers' = ListRemove(consumers, c)
            /\ cPc' = [cPc EXCEPT ![c] = "done"]
            /\ wPc' = [wPc EXCEPT ![c] = "notready"]
       ELSE /\ wPc' = [wPc EXCEPT ![c] = "ready"]
            /\ UNCHANGED <<consumers, cPc>>
    /\ UNCHANGED <<q, recv, expired, prefix, delivered, offDelivVars>>

\* one pass of `while total < min_buffer_bytes`: the get returns an item.
\* None: break; a chunk: chunks.append(chunk), total += len(chunk).  After
\* the loop: NotReady and unregister() if chunks is empty, else the prefix.
WaitGet(c) ==
    /\ wPc[c] = "wait"
    /\ cPc[c] = "live"
    /\ q[c] # <<>>
    /\ LET item == Head(q[c]) IN
          /\ q' = [q EXCEPT ![c] = Tail(@)]
          /\ recv' = [recv EXCEPT ![c] = Append(@, item)]
          /\ IF item = None
             THEN /\ UNCHANGED prefix
                  /\ IF prefix[c] = <<>>
                     THEN /\ consumers' = ListRemove(consumers, c)
                          /\ cPc' = [cPc EXCEPT ![c] = "done"]
                          /\ wPc' = [wPc EXCEPT ![c] = "notready"]
                     ELSE /\ wPc' = [wPc EXCEPT ![c] = "ready"]
                          /\ UNCHANGED <<consumers, cPc>>
             ELSE /\ prefix' = [prefix EXCEPT ![c] = Append(@, item)]
                  /\ wPc' = [wPc EXCEPT ![c] =
                               IF SumLen(prefix[c]) + item.len >= FIRST_MIN_BYTES
                               THEN "ready" ELSE "wait"]
                  /\ UNCHANGED <<consumers, cPc>>
    /\ UNCHANGED <<expired, delivered, orphan, offDelivVars>>

\* the executor thread left behind by a timed-out wait gets the next item
\* put on the queue; its result goes to a cancelled future
OrphanTake(c) ==
    /\ orphan[c]
    /\ q[c] # <<>>
    /\ q' = [q EXCEPT ![c] = Tail(@)]
    /\ recv' = [recv EXCEPT ![c] = Append(@, Head(q[c]))]
    /\ orphan' = [orphan EXCEPT ![c] = FALSE]
    /\ UNCHANGED <<consumers, cPc, expired, wPc, prefix, delivered, offDelivVars>>

\* stream_merged_mp4_async(stream_id, first_chunk, chunk_queue, unregister_cb):
\* session = get_merge_session(stream_id); if not session: return, which is
\* ahead of the try/finally; else yield first_chunk
DeliverStart(c) ==
    /\ wPc[c] = "ready"
    /\ wPc' = [wPc EXCEPT ![c] = IF expired THEN "exited" ELSE "deliver"]
    /\ UNCHANGED <<consumers, cPc, q, recv, expired, prefix, delivered, orphan, offDelivVars>>

\* one pass of the delivery loop: the get returns an item.  None: break, and
\* finally: unregister_cb(); a chunk: yield chunk
DeliverGet(c) ==
    /\ wPc[c] = "deliver"
    /\ q[c] # <<>>
    /\ LET item == Head(q[c]) IN
          /\ q' = [q EXCEPT ![c] = Tail(@)]
          /\ recv' = [recv EXCEPT ![c] = Append(@, item)]
          /\ IF item = None
             THEN /\ consumers' = ListRemove(consumers, c)
                  /\ cPc' = [cPc EXCEPT ![c] = "done"]
                  /\ wPc' = [wPc EXCEPT ![c] = "exited"]
                  /\ UNCHANGED delivered
             ELSE /\ delivered' = [delivered EXCEPT ![c] = Append(@, item)]
                  /\ UNCHANGED <<consumers, cPc, wPc>>
    /\ UNCHANGED <<expired, prefix, orphan, offDelivVars>>

\* DeliverTimeout with the consumer list cleared in place of one removal
DeliverTimeout_DropsAll(c) ==
    /\ wPc[c] = "deliver"
    /\ q[c] = <<>>
    /\ consumers' = <<>>
    /\ cPc' = [cPc EXCEPT ![c] = "done"]
    /\ wPc' = [wPc EXCEPT ![c] = "exited"]
    /\ orphan' = [orphan EXCEPT ![c] = TRUE]
    /\ UNCHANGED <<q, recv, expired, prefix, delivered, offDelivVars>>

\* nothing within 60 s (asyncio.TimeoutError) or the request is cancelled
\* inside the wait: break, and finally: unregister_cb(); the executor thread
\* stays inside chunk_queue.get()
DeliverTimeout(c) ==
    /\ wPc[c] = "deliver"
    /\ q[c] = <<>>
    /\ consumers' = ListRemove(consumers, c)
    /\ cPc' = [cPc EXCEPT ![c] = "done"]
    /\ wPc' = [wPc EXCEPT ![c] = "exited"]
    /\ orphan' = [orphan EXCEPT ![c] = TRUE]
    /\ UNCHANGED <<q, recv, expired, prefix, delivered, offDelivVars>>

\* the client goes away while the generator is suspended at a yield: the
\* generator is closed, and finally: unregister_cb()
DeliverDisconnect(c) ==
    /\ wPc[c] = "deliver"
    /\ consumers' = ListRemove(consumers, c)
    /\ cPc' = [cPc EXCEPT ![c] = "done"]
    /\ wPc' = [wPc EXCEPT ![c] = "exited"]
    /\ UNCHANGED <<q, recv, expired, prefix, delivered, orphan, offDelivVars>>

\* ------------------------------------------------ GET /stream/{stream_id}
\* stream_merged: if not get_merge_session(stream_id): raise HTTPException(404);
\* return StreamingResponse(stream_merged_mp4_async(stream_id),
\*     headers={"Accept-Ranges": "bytes", "Cache-Control": "no-store"})
StreamMerged(id) ==
    /\ lookup' = [id |-> id, result |-> LookupResult(sessions, now, id)]
    /\ sessions' = LookupTable(sessions, now, id)
    /\ IF LookupResult(sessions, now, id) = "NotFound"
       THEN /\ notFound' = notFound \cup {id}
            /\ everNotFound' = everNotFound \cup {id}
            /\ response' = [status |-> 404, accept_ranges |-> "absent",
                            cache_control |-> "absent", streaming |-> FALSE]
       ELSE /\ UNCHANGED <<notFound, everNotFound>>
            /\ response' = [status |-> 200, accept_ranges |-> "bytes",
                            cache_control |-> "no-store", streaming |-> TRUE]
    /\ UNCHANGED <<now, everCreated, created, pipeVars, delivVars, prewarmVars,
                   flagVars, otherVars, sideVars>>

\* ------------------------------------- another session on the same event loop
\* wait_hls_prewarm(other_id, ...) is called: the coroutine is scheduled
OtherStart ==
    /\ oPc = "idle"
    /\ oPc' = "ready"
    /\ UNCHANGED <<oFilled, pipeVars, tableVars, delivVars, prewarmVars, flagVars, routeVars, sideVars>>

\* the other session's own producer and broadcaster threads fill its buffer
OtherFill ==
    /\ ~oFilled
    /\ oFilled' = TRUE
    /\ UNCHANGED <<oPc, pipeVars, tableVars, delivVars, prewarmVars, flagVars, routeVars, sideVars>>

\* one pass of the other session's poll loop, run by the event loop:
\* with buffer_lock: total = ...; if total >= min_bytes: return True;
\* await asyncio.sleep(0.15)
OtherPoll ==
    /\ oPc = "ready"
    /\ LoopFree
    /\ oPc' = IF oFilled THEN "true" ELSE "sleep"
    /\ UNCHANGED <<oFilled, pipeVars, tableVars, delivVars, prewarmVars, flagVars, routeVars, sideVars>>

\* await asyncio.sleep(0.15) returns: the coroutine is ready again
OtherWake ==
    /\ oPc = "sleep"
    /\ oPc' = "ready"
    /\ UNCHANGED <<oFilled, pipeVars, tableVars, delivVars, prewarmVars, flagVars, routeVars, sideVars>>

\* --------------------------------- get_merge_session, statement by statement
\* No lock guards _sessions: a thread can be switched out between any two
\* of the three statements below.
\* s = _sessions.get(stream_id); if not s: return None
LookupGet(t, id) ==
    /\ lkPc[t] = "idle"
    /\ lkId' = [lkId EXCEPT ![t] = id]
    /\ IF id \in DOMAIN sessions
       THEN /\ lkS' = [lkS EXCEPT ![t] = sessions[id]]
            /\ lkPc' = [lkPc EXCEPT ![t] = "check"]
            /\ lkRes' = [lkRes EXCEPT ![t] = "none"]
       ELSE /\ lkRes' = [lkRes EXCEPT ![t] = "NotFound"]
            /\ UNCHANGED <<lkS, lkPc>>
    /\ UNCHANGED <<tableVars, pipeVars, delivVars, prewarmVars, flagVars, routeVars, otherVars, lateVars, appVars>>

\* if time.time() - s["created_at"] > _SESSION_TTL_SEC: ... ; return s
LookupCheck(t) ==
    /\ lkPc[t] = "check"
    /\ IF now - lkS[t] > SESSION_TTL_SEC
       THEN /\ lkPc' = [lkPc EXCEPT ![t] = "del"]
            /\ UNCHANGED lkRes
       ELSE /\ lkPc' = [lkPc EXCEPT ![t] = "idle"]
            /\ lkRes' = [lkRes EXCEPT ![t] = "Found"]
    /\ UNCHANGED <<lkId, lkS, tableVars, pipeVars, delivVars, prewarmVars, flagVars,
                   routeVars, otherVars, lateVars, appVars>>

\* del _sessions[stream_id]; return None.  del raises KeyError when the key
\* is no longer in the dict.
LookupDel(t) ==
    /\ lkPc[t] = "del"
    /\ lkPc' = [lkPc EXCEPT ![t] = "idle"]
    /\ IF lkId[t] \in DOMAIN sessions
       THEN /\ sessions' = TableDel(sessions, lkId[t])
            /\ lkRes' = [lkRes EXCEPT ![t] = "NotFound"]
       ELSE /\ sessions' = sessions
            /\ lkRes' = [lkRes EXCEPT ![t] = "KeyError"]
    /\ UNCHANGED <<lkId, lkS, now, lookup, notFound, everNotFound, everCreated, created,
                   pipeVars, delivVars, prewarmVars, flagVars, routeVars, otherVars, lateVars, appVars>>

\* wait_first_chunk_merge: time.monotonic() reaches `deadline`.  The loop
\* reads the clock only to compute remaining = max(0.1, deadline - now): no
\* statement leaves the loop because the deadline has passed.
WaitDeadline(c) ==
    /\ wPc[c] = "wait"
    /\ cPc[c] = "live"
    /\ ~wLate[c]
    /\ wLate' = [wLate EXCEPT ![c] = TRUE]
    /\ UNCHANGED <<pipeVars, tableVars, delivVars, prewarmVars, flagVars, routeVars,
                   otherVars, raceVars, appVars>>

\* ------------------------------------------------------------ activity log
\* _MAX_ENTRIES = 100, scaled
MAX_ENTRIES == 2
\* number of add calls followed, values an entry is drawn from, largest limit
MaxAdds == 4
NumEntryVals == 2
MaxLimit == 3
EntryVals == 1..NumEntryVals
Limits == 0..MaxLimit

\* Python's s[i:]: a negative i counts from the end, and -0 is 0
SliceFrom(s, i) ==
    LET n == Len(s)
        start == IF i < 0 THEN (IF n + i < 0 THEN 0 ELSE n + i)
                 ELSE (IF i > n THEN n ELSE i)
    IN SubSeq(s, start + 1, n)

\* list.reverse()
Reverse(s) == [i \in 1..Len(s) |-> s[Len(s) + 1 - i]]

\* while len(_entries) > _MAX_ENTRIES: _entries.pop(0)
TrimOldest(s) ==
    IF Len(s) > MAX_ENTRIES THEN SubSeq(s, Len(s) - MAX_ENTRIES + 1, Len(s)) ELSE s

\* activity_log.get(limit): out = _entries[-limit:]; out.reverse(); return out
LogGetResult(s, limit) == Reverse(SliceFrom(s, 0 - limit))

\* activity_log.add(entry)
LogAdd(e) ==
    /\ Len(logged) < MaxAdds
    /\ entries' = TrimOldest(Append(entries, e))
    /\ logged' = Append(logged, e)
    /\ UNCHANGED <<got, streamVars, storeVars, deviceVars>>

\* activity_log.get(limit)
LogGet(limit) ==
    /\ got' = [limit |-> limit, of |-> entries, out |-> LogGetResult(entries, limit)]
    /\ UNCHANGED <<entries, logged, streamVars, storeVars, deviceVars>>

\* GET /activity?limit=: log_get(limit=min(limit, 100))
GetActivity(limit) ==
    LogGet(IF limit < MAX_ENTRIES THEN limit ELSE MAX_ENTRIES)

\* ------------------------------------------------------- credential storage
\* number of distinct credential strings followed
NumVals == 2
Vals == 1..NumVals
Identifiers == {"tv1", "tv2"}
\* the protocols credentials are saved for
Protocols == {"airplay", "companion"}
\* the dicts and the strings save() is called with
CredDicts == UNION {[ks -> Vals] : ks \in SUBSET Protocols}
SaveArgs == {PyDict(f) : f \in CredDicts} \cup {PyStr(x) : x \in Vals}

\* {**a, **b}
DictMerge(a, b) ==
    [k \in (DOMAIN a) \cup (DOMAIN b) |-> IF k \in DOMAIN b THEN b[k] ELSE a[k]]

\* d[k] = v
DictPut(d, k, v) == [i \in (DOMAIN d) \cup {k} |-> IF i = k THEN v ELSE d[i]]

\* Merged with the arguments of the merge exchanged: stored keys win
Merged_ExistingWins(existing, new) ==
    LET e == IF existing.kind = "str" THEN DictPut(EmptyDict, "credentials", existing.v)
             ELSE existing.items
    IN PyDict(DictMerge(new.items, e))

\* if isinstance(existing, str): existing = {"credentials": existing};
\* merged = {**(existing or {}), **credentials}
Merged(existing, new) ==
    LET e == IF existing.kind = "str" THEN DictPut(EmptyDict, "credentials", existing.v)
             ELSE existing.items
    IN PyDict(DictMerge(e, new.items))

\* what save(identifier, credentials) leaves in _credentials
SaveResult(creds, id, arg) ==
    IF arg.kind = "dict"
    THEN DictPut(creds, id,
                 Merged(IF id \in DOMAIN creds THEN creds[id] ELSE PyDict(EmptyDict), arg))
    ELSE DictPut(creds, id, arg)

\* json.dumps: the text as a sequence of tokens.  A dict is written "{",
\* then each key followed by its value, then "}"; the order of the keys
\* (insertion order in Python) is fixed here, equality of dicts ignores it.
TokOpen == [t |-> "{", x |-> ""]
TokClose == [t |-> "}", x |-> ""]
TokKey(k) == [t |-> "key", x |-> k]
TokStr(v) == [t |-> "str", x |-> v]
KeyOrder == <<"airplay", "companion", "credentials", "tv1", "tv2">>

RECURSIVE DumpItems(_, _, _)
DumpItems(f, i, inner) ==
    IF i > Len(KeyOrder) THEN <<>>
    ELSE LET k == KeyOrder[i] IN
         (IF k \in DOMAIN f
          THEN <<TokKey(k)>> \o
               (IF inner THEN <<TokStr(f[k])>>
                ELSE IF f[k].kind = "str" THEN <<TokStr(f[k].v)>>
                ELSE <<TokOpen>> \o DumpItems(f[k].items, 1, TRUE) \o <<TokClose>>)
          ELSE <<>>) \o DumpItems(f, i + 1, inner)

\* to_json(): json.dumps(self._credentials)
ToJson(creds) == <<TokOpen>> \o DumpItems(creds, 1, FALSE) \o <<TokClose>>

\* json.loads of an inner object, from the token after its "{"
RECURSIVE LoadInner(_, _, _)
LoadInner(text, pos, acc) ==
    IF text[pos].t = "}" THEN [val |-> acc, next |-> pos + 1]
    ELSE LoadInner(text, pos + 2, DictPut(acc, text[pos].x, text[pos + 1].x))

\* json.loads of the outer object, from the token after its "{"
RECURSIVE LoadOuter(_, _, _)
LoadOuter(text, pos, acc) ==
    IF text[pos].t = "}" THEN acc
    ELSE IF text[pos + 1].t = "str"
         THEN LoadOuter(text, pos + 2, DictPut(acc, text[pos].x, PyStr(text[pos + 1].x)))
         ELSE LET r == LoadInner(text, pos + 2, EmptyDict) IN
              LoadOuter(text, r.next, DictPut(acc, text[pos].x, PyDict(r.val)))

\* DatabaseStorage(credentials_json): {} for None or an empty text, else
\* json.loads(credentials_json)
FromJson(text) == IF text = <<>> THEN EmptyDict ELSE LoadOuter(text, 2, EmptyDict)

\* storage.save(identifier, credentials)
Save(id, arg) ==
    /\ credentials' = SaveResult(credentials, id, arg)
    /\ stOp' = [name |-> "save", id |-> id, arg |-> arg, before |-> credentials]
    /\ UNCHANGED <<streamVars, logVars, deviceVars>>

\* storage.remove(identifier)
Remove(id) ==
    /\ credentials' = [i \in (DOMAIN credentials) \ {id} |-> credentials[i]]
    /\ stOp' = [name |-> "remove", id |-> id, arg |-> PyStr(0), before |-> credentials]
    /\ UNCHANGED <<streamVars, logVars, deviceVars>>

\* the credentials go to the database and a new storage is built from them:
\* DatabaseStorage(storage.to_json())
Reload ==
    /\ credentials' = FromJson(ToJson(credentials))
    /\ stOp' = [name |-> "reload", id |-> "", arg |-> PyStr(0), before |-> credentials]
    /\ UNCHANGED <<streamVars, logVars, deviceVars>>

\* ------------------------------------------------------------ device tables
\* number of device ids and of names followed
NumDevices == 2
NumNames == 2
DeviceIds == 1..NumDevices
Names == 1..NumNames

\* DeleteDevice without the look for the default row
DeleteDevice_KeepsDefault(d) ==
    /\ IF d \in DOMAIN devices
       THEN /\ devices' = [i \in (DOMAIN devices) \ {d} |-> devices[i]]
            /\ defaults' = defaults
            /\ devOp' = [name |-> "delete", id |-> d, ok |-> TRUE, before |-> defaults]
       ELSE /\ UNCHANGED <<devices, defaults>>
            /\ devOp' = [name |-> "delete", id |-> d, ok |-> FALSE, before |-> defaults]
    /\ UNCHANGED <<streamVars, logVars, storeVars>>

\* DELETE /devices/{device_id}: DEVICE_NOT_FOUND when there is no such
\* device; else the default row with this device_id is deleted if there is
\* one, then the device
DeleteDevice(d) ==
    /\ IF d \in DOMAIN devices
       THEN /\ devices' = [i \in (DOMAIN devices) \ {d} |-> devices[i]]
            /\ defaults' = defaults \ {d}
            /\ devOp' = [name |-> "delete", id |-> d, ok |-> TRUE, before |-> defaults]
       ELSE /\ UNCHANGED <<devices, defaults>>
            /\ devOp' = [name |-> "delete", id |-> d, ok |-> FALSE, before |-> defaults]
    /\ UNCHANGED <<streamVars, logVars, storeVars>>

\* PATCH /devices/{device_id}: name and address of an existing device
UpdateDevice(d, name) ==
    /\ IF d \in DOMAIN devices
       THEN /\ devices' = [devices EXCEPT ![d] = name]
            /\ devOp' = [name |-> "update", id |-> d, ok |-> TRUE, before |-> defaults]
       ELSE /\ UNCHANGED devices
            /\ devOp' = [name |-> "update", id |-> d, ok |-> FALSE, before |-> defaults]
    /\ UNCHANGED <<defaults, streamVars, logVars, storeVars>>

\* POST /add: the device is updated if its device_id is stored, else inserted
AddDevice(d, name) ==
    /\ devices' = [i \in (DOMAIN devices) \cup {d} |-> IF i = d THEN name ELSE devices[i]]
    /\ devOp' = [name |-> "add", id |-> d, ok |-> TRUE, before |-> defaults]
    /\ UNCHANGED <<defaults, streamVars, logVars, storeVars>>

\* POST /default: DEVICE_NOT_FOUND when there is no such device; else
\* default = db.query(DefaultDevice).first(), any row of the table, gets the
\* device_id, or a row is added when the table is empty
SetDefaultDevice(d) ==
    /\ IF d \in DOMAIN devices
       THEN /\ IF defaults = {}
               THEN defaults' = {d}
               ELSE \E row \in defaults : defaults' = (defaults \ {row}) \cup {d}
            /\ devOp' = [name |-> "default", id |-> d, ok |-> TRUE, before |-> defaults]
       ELSE /\ UNCHANGED defaults
            /\ devOp' = [name |-> "default", id |-> d, ok |-> FALSE, before |-> defaults]
    /\ UNCHANGED <<devices, streamVars, logVars, storeVars>>

\* GET /default: the device_id of a default row whose device exists, else
\* None (0 here)
GetDefaultDevice ==
    /\ \E r \in (IF defaults = {} THEN {0}
                 ELSE {IF row \in DOMAIN devices THEN row ELSE 0 : row \in defaults}) :
          devOp' = [name |-> "get", id |-> r, ok |-> TRUE, before |-> defaults]
    /\ UNCHANGED <<devices, defaults, streamVars, logVars, storeVars>>

Next ==
    \/ ProducerSpawn
    \/ \E l \in 1..READ_SIZE : ProducerPut(l)
    \/ ProducerEnd
    \/ ProducerFinally
    \/ BroadcasterGet
    \/ BroadcasterAppend
    \/ BroadcasterEvict
    \/ BroadcasterSnapshot
    \/ BroadcasterLockNone
    \/ BroadcasterPut
    \/ BroadcasterRelease
    \/ \E c \in Consumers : RegisterCopy(c)
    \/ \E c \in Consumers : RegisterAdd(c)
    \/ \E c \in Consumers : Dequeue(c)
    \/ \E c \in Consumers : Unregister(c)

Spec == Init /\ [][Next]_vars

\* The session as the application runs it: the producer and the broadcaster
\* started by create_merge_session / create_hls_session, and the delivery
\* streams opened by GET requests.  Nothing in the application calls
\* _register_consumer, so the consumer list stays empty and the fan-out loop
\* body never runs.
NextHttp ==
    \/ ProducerSpawn
    \/ \E l \in 1..READ_SIZE : ProducerPut(l)
    \/ ProducerEnd
    \/ ProducerFinally
    \/ BroadcasterGet
    \/ BroadcasterAppend
    \/ BroadcasterEvict
    \/ BroadcasterSnapshot
    \/ BroadcasterLockNone
    \/ BroadcasterRelease
    \/ \E s \in Streams : HttpGet(s)
    \/ \E s \in Streams : RunSpawn(s)
    \/ \E s \in Streams, l \in 1..READ_SIZE : RunPut(s, l)
    \/ \E s \in Streams : RunEnd(s)
    \/ \E s \in Streams : RunPutNone(s)
    \/ \E s \in Streams : StreamYield(s)
    \/ \E s \in Streams : StreamTimeout(s)

SpecHttp == Init /\ [][NextHttp]_vars

\* The session table on its own: sessions are created, time passes, ids are
\* looked up.
NextTable ==
    \/ \E id \in Ids : CreateSession(id)
    \/ \E id \in Ids : GetMergeSession(id)
    \/ Tick

SpecTable == Init /\ [][NextTable]_vars

\* The session with a wait_hls_prewarm call on it and no consumer, as
\* appletv_service runs it before it hands the stream URL to the device.
NextPrewarm ==
    \/ ProducerSpawn
    \/ \E l \in 1..READ_SIZE : ProducerPut(l)
    \/ ProducerEnd
    \/ ProducerFinally
    \/ BroadcasterGet
    \/ BroadcasterAppend
    \/ BroadcasterEvict
    \/ BroadcasterSnapshot
    \/ BroadcasterLockNone
    \/ BroadcasterRelease
    \/ SessionExpires
    \/ PrewarmStart
    \/ PrewarmDeadline
    \/ PrewarmCheck
    \/ PrewarmSum
    \/ PrewarmWake

SpecPrewarm == Init /\ [][NextPrewarm]_vars

\* The session with consumers that come through wait_first_chunk_merge and
\* hand the prefix, the queue and the unregister callback to
\* stream_merged_mp4_async.
NextDelivery ==
    \/ ProducerSpawn
    \/ \E l \in 1..READ_SIZE : ProducerPut(l)
    \/ ProducerEnd
    \/ ProducerFinally
    \/ BroadcasterGet
    \/ BroadcasterAppend
    \/ BroadcasterEvict
    \/ BroadcasterSnapshot
    \/ BroadcasterLockNone
    \/ BroadcasterPut
    \/ BroadcasterRelease
    \/ SessionExpires
    \/ \E c \in Consumers : WaitStart(c)
    \/ \E c \in Consumers : RegisterLookup(c)
    \/ \E c \in Consumers : WaitRegisterCopy(c)
    \/ \E c \in Consumers : RegisterAdd(c)
    \/ \E c \in Consumers : WaitGet(c)
    \/ \E c \in Consumers : WaitTimeout(c)
    \/ \E c \in Consumers : OrphanTake(c)
    \/ \E c \in Consumers : DeliverStart(c)
    \/ \E c \in Consumers : DeliverGet(c)
    \/ \E c \in Consumers : DeliverTimeout(c)
    \/ \E c \in Consumers : DeliverDisconnect(c)

SpecDelivery == Init /\ [][NextDelivery]_vars

\* The session with callers of wait_first_chunk_merge, up to its return.
NextWait ==
    \/ ProducerSpawn
    \/ \E l \in 1..READ_SIZE : ProducerPut(l)
    \/ ProducerEnd
    \/ ProducerFinally
    \/ BroadcasterGet
    \/ BroadcasterAppend
    \/ BroadcasterEvict
    \/ BroadcasterSnapshot
    \/ BroadcasterLockNone
    \/ BroadcasterPut
    \/ BroadcasterRelease
    \/ SessionExpires
    \/ \E c \in Consumers : WaitStart(c)
    \/ \E c \in Consumers : RegisterLookup(c)
    \/ \E c \in Consumers : WaitRegisterCopy(c)
    \/ \E c \in Consumers : RegisterAdd(c)
    \/ \E c \in Consumers : WaitGet(c)
    \/ \E c \in Consumers : WaitTimeout(c)
    \/ \E c \in Consumers : OrphanTake(c)

SpecWait == Init /\ [][NextWait]_vars

\* The session with consumers whose wait returns by the loop's own exits and
\* whose delivery streams end by the marker or by the silence timeout.
NextSilence ==
    \/ ProducerSpawn
    \/ \E l \in 1..READ_SIZE : ProducerPut(l)
    \/ ProducerEnd
    \/ ProducerFinally
    \/ BroadcasterGet
    \/ BroadcasterAppend
    \/ BroadcasterEvict
    \/ BroadcasterSnapshot
    \/ BroadcasterLockNone
    \/ BroadcasterPut
    \/ BroadcasterRelease
    \/ \E c \in Consumers : WaitStart(c)
    \/ \E c \in Consumers : RegisterLookup(c)
    \/ \E c \in Consumers : WaitRegisterCopy(c)
    \/ \E c \in Consumers : RegisterAdd(c)
    \/ \E c \in Consumers : WaitGet(c)
    \/ \E c \in Consumers : DeliverStart(c)
    \/ \E c \in Consumers : DeliverGet(c)
    \/ \E c \in Consumers : DeliverTimeout(c)

SpecSilence == Init /\ [][NextSilence]_vars

\* The session table with the route that serves GET /stream/{stream_id}.
NextRoute ==
    \/ \E id \in Ids : CreateSession(id)
    \/ \E id \in Ids : StreamMerged(id)
    \/ Tick

SpecRoute == Init /\ [][NextRoute]_vars

\* One session with its consumers and its prewarm wait, and the prewarm wait
\* of a second session served by the same event loop.
NextContend ==
    \/ ProducerSpawn
    \/ \E l \in 1..READ_SIZE : ProducerPut(l)
    \/ ProducerEnd
    \/ ProducerFinally
    \/ BroadcasterGet
    \/ BroadcasterAppend
    \/ BroadcasterEvict
    \/ BroadcasterSnapshot
    \/ BroadcasterLockNone
    \/ BroadcasterPut
    \/ BroadcasterRelease
    \/ \E c \in Consumers : RegisterCopy(c)
    \/ \E c \in Consumers : RegisterAdd(c)
    \/ \E c \in Consumers : Dequeue(c)
    \/ PrewarmStart
    \/ PrewarmDeadline
    \/ PrewarmCheck
    \/ PrewarmSum
    \/ PrewarmWake
    \/ OtherStart
    \/ OtherFill
    \/ OtherPoll
    \/ OtherWake

SpecContend == Init /\ [][NextContend]_vars

\* A session nobody ever registers with: the producer thread and the
\* broadcaster thread, watched by the prewarm wait, which registers nothing.
\* Each of the two is an operating-system thread that runs whenever it can
\* (weak fairness on each of its steps); fairness on ProducerEnd is the
\* assumption that the external process ends.
SpecDrain ==
    /\ Init
    /\ [][NextPrewarm]_vars
    /\ WF_vars(ProducerSpawn)
    /\ WF_vars(ProducerEnd)
    /\ WF_vars(ProducerFinally)
    /\ WF_vars(BroadcasterGet)
    /\ WF_vars(BroadcasterAppend)
    /\ WF_vars(BroadcasterEvict)
    /\ WF_vars(BroadcasterSnapshot)
    /\ WF_vars(BroadcasterLockNone)
    /\ WF_vars(BroadcasterRelease)

\* One session with consumers that register and leave, its prewarm wait, and
\* the delivery stream of one GET /stream/{stream_id}, all on one event loop.
NextWedge ==
    \/ ProducerSpawn
    \/ \E l \in 1..READ_SIZE : ProducerPut(l)
    \/ ProducerEnd
    \/ ProducerFinally
    \/ BroadcasterGet
    \/ BroadcasterAppend
    \/ BroadcasterEvict
    \/ BroadcasterSnapshot
    \/ BroadcasterLockNone
    \/ BroadcasterPut
    \/ BroadcasterRelease
    \/ \E c \in Consumers : RegisterCopy(c)
    \/ \E c \in Consumers : RegisterAdd(c)
    \/ \E c \in Consumers : Unregister(c)
    \/ PrewarmStart
    \/ PrewarmCheck
    \/ PrewarmSum
    \/ PrewarmWake
    \/ HttpGet(1)
    \/ \E s \in Streams : RunSpawn(s)
    \/ \E s \in Streams, l \in 1..READ_SIZE : RunPut(s, l)
    \/ \E s \in Streams : RunEnd(s)
    \/ \E s \in Streams : RunPutNone(s)
    \/ \E s \in Streams : StreamYield(s)
    \/ \E s \in Streams : StreamTimeout(s)

SpecWedge == Init /\ [][NextWedge]_vars

\* The session table looked up by two threads at once.
NextRace ==
    \/ \E id \in Ids : CreateSession(id)
    \/ Tick
    \/ \E t \in Threads, id \in Ids : LookupGet(t, id)
    \/ \E t \in Threads : LookupCheck(t)
    \/ \E t \in Threads : LookupDel(t)

SpecRace == Init /\ [][NextRace]_vars

\* wait_first_chunk_merge with its deadline.
NextLate ==
    \/ ProducerSpawn
    \/ \E l \in 1..READ_SIZE : ProducerPut(l)
    \/ ProducerEnd
    \/ ProducerFinally
    \/ BroadcasterGet
    \/ BroadcasterAppend
    \/ BroadcasterEvict
    \/ BroadcasterSnapshot
    \/ BroadcasterLockNone
    \/ BroadcasterPut
    \/ BroadcasterRelease
    \/ \E c \in Consumers : WaitStart(c)
    \/ \E c \in Consumers : RegisterLookup(c)
    \/ \E c \in Consumers : WaitRegisterCopy(c)
    \/ \E c \in Consumers : RegisterAdd(c)
    \/ \E c \in Consumers : WaitDeadline(c)
    \/ \E c \in Consumers : WaitGet(c)
    \/ \E c \in Consumers : WaitTimeout(c)
    \/ \E c \in Consumers : OrphanTake(c)

SpecLate == Init /\ [][NextLate]_vars

\* The activity log.
NextLog ==
    \/ \E e \in EntryVals : LogAdd(e)
    \/ \E limit \in Limits : LogGet(limit)
    \/ \E limit \in Limits : GetActivity(limit)

SpecLog == Init /\ [][NextLog]_vars

\* The credential storage.
NextStore ==
    \/ \E id \in Identifiers, arg \in SaveArgs : Save(id, arg)
    \/ \E id \in Identifiers : Remove(id)
    \/ Reload

SpecStore == Init /\ [][NextStore]_vars

\* The device requests, one after the other.
NextDevices ==
    \/ \E d \in DeviceIds, name \in Names : AddDevice(d, name)
    \/ \E d \in DeviceIds : SetDefaultDevice(d)
    \/ \E d \in DeviceIds, name \in Names : UpdateDevice(d, name)
    \/ \E d \in DeviceIds : DeleteDevice(d)
    \/ GetDefaultDevice

SpecDevices == Init /\ [][NextDevices]_vars

\* ================================================================= claims
\* everything put onto consumer c's queue so far, in order
Enq(c) == recv[c] \o q[c]

Last(s) == s[Len(s)]

EndsWithNone(s) == s # <<>> /\ Last(s) = None

FitLens(s) ==
    {n \in 0..Len(s) : SumLen(SubSeq(s, Len(s) - n + 1, Len(s))) <= BROADCAST_BUFFER_BYTES}

\* the longest suffix of s whose total size does not exceed the ceiling
LongestFit(s) ==
    LET n == CHOOSE k \in FitLens(s) : \A m \in FitLens(s) : m <= k
    IN SubSeq(s, Len(s) - n + 1, Len(s))

\* the replay buffer as it stood when consumer c registered
ReplayAt(c) == LongestFit(SubSeq(relayed, 1, joinAt[c]))

Registered(c) == cPc[c] \in {"live", "done"}

\* position of consumer c in the consumer list, 0 when absent
ListPos(c) ==
    IF ListHas(consumers, c)
    THEN CHOOSE i \in 1..Len(consumers) : consumers[i] = c
    ELSE 0

\* the consumer's stream is complete: the replay buffer at registration,
\* every chunk emitted after it, and the marker
Complete(c) ==
    /\ Enq(c) = ReplayAt(c) \o SubSeq(emitted, joinAt[c] + 1, Len(emitted))
    /\ CountNone(Enq(c)) = 1

\* the consumer's stream has reached its end: it dequeued the marker, or the
\* broadcaster returned while it was registered
AtEnd(c) ==
    \/ EndsWithNone(recv[c])
    \/ bPc = "done" /\ cPc[c] = "live" /\ joinedLive[c]

\* C1 (as amended): a consumer registered before the terminal marker is
\* relayed dequeues, in order, the replay buffer as it stood at its
\* registration (all chunks relayed so far only if none had been evicted),
\* then every chunk emitted after that, then exactly one terminal marker.
C1_ReplayThenRestThenMarker ==
    \A c \in Consumers : AtEnd(c) => Complete(c)

\* C1 (as claimed): such a consumer dequeues exactly the emitted sequence C,
\* followed by one terminal marker.
C1_ExactlyEmitted ==
    \A c \in Consumers : AtEnd(c) => Enq(c) = emitted

\* a consumer that joined after an eviction drained its stream to the marker
C1_Witness ==
    \E c \in Consumers :
        /\ EndsWithNone(recv[c])
        /\ Len(recv[c]) >= 2
        /\ Len(ReplayAt(c)) < joinAt[c]

\* C2: what has been put onto a consumer's queue is a contiguous run of the
\* producer's emitted chunks in the producer's order: nothing reordered,
\* duplicated or skipped.
C2_ContiguousRun ==
    \A c \in Consumers :
        LET e == ChunksOf(Enq(c)) IN
        \A i \in 1..Len(e) :
            /\ e[i].seq \in 1..Len(emitted)
            /\ emitted[e[i].seq] = e[i]
            /\ i > 1 => e[i].seq = e[i - 1].seq + 1

\* a consumer was given two chunks while another one came and went
C2_Witness ==
    \E c, d \in Consumers :
        /\ c # d
        /\ Len(ChunksOf(Enq(c))) >= 2
        /\ cPc[d] = "done"

\* C3: whenever the broadcaster is outside its critical section the replay
\* buffer's total size is at most the ceiling, and the buffer only ever
\* changes by one chunk appended at the newest end or one whole chunk
\* removed from the oldest end.
C3_BufferBounded ==
    /\ [](BroadcasterThread \notin buffer_lock =>
            SumLen(buffer_list) <= BROADCAST_BUFFER_BYTES)
    /\ [][\/ buffer_list' = buffer_list
          \/ /\ Len(buffer_list') = Len(buffer_list) + 1
             /\ SubSeq(buffer_list', 1, Len(buffer_list)) = buffer_list
          \/ /\ buffer_list # <<>>
             /\ buffer_list' = Tail(buffer_list)]_vars

\* the buffer has lost a chunk to eviction and the broadcaster is outside
C3_Witness ==
    /\ BroadcasterThread \notin buffer_lock
    /\ buffer_list # <<>>
    /\ Len(buffer_list) < Len(relayed)

\* C4: once the eviction loop has run, the replay buffer is the longest
\* suffix of the relayed chunk sequence whose total size is within the
\* ceiling.
C4_LongestRecentSuffix ==
    bPc # "evict" => buffer_list = LongestFit(relayed)

\* a consumer registering after an eviction is seeded with the recent
\* suffix only
C4_Witness ==
    \E c \in Consumers :
        /\ cPc[c] = "live"
        /\ joinAt[c] = Len(relayed)
        /\ Len(buffer_list) < Len(relayed)
        /\ Enq(c) = buffer_list
        /\ buffer_list # <<>>

\* what consumer a was given from the moment consumer b registered
SinceJoin(a, b) == SubSeq(Enq(a), enqAtJoin[b][a] + 1, Len(Enq(a)))

\* what consumer b was given after its replay prefix
AfterPrefix(b) == SubSeq(Enq(b), Len(ReplayAt(b)) + 1, Len(Enq(b)))

\* C5: for two registered consumers, a registered before b, what a is given
\* from b's registration on is what b is given after its replay prefix: one
\* is a prefix of the other while a fan-out is under way, and they are equal
\* whenever the broadcaster is outside its critical section.
C5_SameFromJoinPoint ==
    \A a, b \in Consumers :
        (cPc[a] = "live" /\ cPc[b] = "live" /\ ListPos(a) < ListPos(b)) =>
            /\ IsPrefix(SinceJoin(a, b), AfterPrefix(b)) \/ IsPrefix(AfterPrefix(b), SinceJoin(a, b))
            /\ BroadcasterThread \notin buffer_lock => SinceJoin(a, b) = AfterPrefix(b)

\* the later consumer had a replay prefix and both were then given a chunk
C5_Witness ==
    \E a, b \in Consumers :
        /\ cPc[a] = "live" /\ cPc[b] = "live" /\ ListPos(a) < ListPos(b)
        /\ ReplayAt(b) # <<>>
        /\ SinceJoin(a, b) # <<>>
        /\ SinceJoin(a, b) = AfterPrefix(b)

\* C6: registration is atomic with respect to relaying: between the copy of
\* the replay buffer and the add to the consumer list nothing is relayed,
\* and a registered consumer's queue was given exactly the replay buffer of
\* its registration followed by the chunks relayed after it, starting with
\* the one that follows the last chunk of the prefix.
C6_RegisterAtomic ==
    \A c \in Consumers :
        /\ cPc[c] = "copied" =>
              /\ q[c] = buffer_list
              /\ buffer_list = ReplayAt(c)
              /\ Len(relayed) = joinAt[c]
              /\ BroadcasterThread \notin buffer_lock
        /\ Registered(c) =>
              /\ IsPrefix(ReplayAt(c), Enq(c))
              /\ IsPrefix(ChunksOf(AfterPrefix(c)),
                          SubSeq(relayed, joinAt[c] + 1, Len(relayed)))

\* a consumer seeded with a chunk was next given the chunk that follows it
C6_Witness ==
    \E c \in Consumers :
        /\ Registered(c)
        /\ ReplayAt(c) # <<>>
        /\ ChunksOf(AfterPrefix(c)) # <<>>
        /\ Head(AfterPrefix(c)).seq = Last(ReplayAt(c)).seq + 1

\* C9: the producer puts exactly one terminal marker, after every chunk: the
\* marker is never followed by anything, it is there exactly when the
\* producer has ended, whichever way the external process went.
C9_OneMarkerLast ==
    /\ CountNone(emitted) <= 1
    /\ CountNone(emitted) = 1 => Last(emitted) = None
    /\ prodPc = "done" <=> CountNone(emitted) = 1

\* the producer ended after two chunks and its marker
C9_Witness ==
    /\ prodPc = "done"
    /\ Len(emitted) = 3
    /\ spawned = 1

\* C7 (as claimed): the external process is started at most once for the
\* session, however many delivery streams are opened with GET /stream/{id}.
C7_SpawnedAtMostOnce == spawned <= 1

\* position in the producer's output of the oldest chunk the replay buffer
\* holds for a stream opened when openRel[s] chunks had been relayed
FirstReplaySeq(s) == openRel[s] - Len(LongestFit(SubSeq(relayed, 1, openRel[s]))) + 1

\* C8 (as claimed): a second delivery stream, opened while the broadcast is
\* in progress, yields the chunks left in the replay buffer and then the
\* chunks relayed after it was opened: its i-th chunk is the i-th chunk of
\* that continuation, not of the stream's beginning.
C8_SecondOpenContinuesBroadcast ==
    \A s \in Streams :
        (s >= 2 /\ openRel[s] >= 1) =>
            \A i \in 1..Len(yielded[s]) :
                yielded[s][i].seq = FirstReplaySeq(s) + i - 1

\* the step a lookup of id must take, by the state it is called in
LookupContract(id) ==
    /\ id \notin DOMAIN sessions =>
          /\ lookup'.result = "NotFound"
          /\ sessions' = sessions
    /\ (id \in DOMAIN sessions /\ now - sessions[id] > SESSION_TTL_SEC) =>
          /\ lookup'.result = "NotFound"
          /\ DOMAIN sessions' = (DOMAIN sessions) \ {id}
          /\ \A i \in DOMAIN sessions' : sessions'[i] = sessions[i]
    /\ (id \in DOMAIN sessions /\ now - sessions[id] <= SESSION_TTL_SEC) =>
          /\ lookup'.result = "Found"
          /\ sessions' = sessions

\* C10 (as amended): get_merge_session(id) returns NotFound for an id with
\* no table entry, leaving the table unchanged; for an entry older than the
\* TTL it returns NotFound and removes that entry only; for an entry of age
\* at most the TTL it returns the session and leaves the table unchanged.
\* Once NotFound has been returned for an id, every later lookup of it
\* returns NotFound until a create call stores a session under that id.
C10_LookupAndExpiry ==
    /\ [][\A id \in Ids : GetMergeSession(id) => LookupContract(id)]_vars
    /\ [](\A id \in notFound :
            /\ id \notin DOMAIN sessions
            /\ LookupResult(sessions, now, id) = "NotFound")

\* C10 (as claimed): once NotFound has been returned for an id, every later
\* lookup of that id returns NotFound.
C10_NotFoundForEver ==
    \A id \in everNotFound : LookupResult(sessions, now, id) = "NotFound"

\* an entry that outlived the TTL was looked up and evicted while another
\* session is still served
C10_Witness ==
    /\ lookup.result = "NotFound"
    /\ lookup.id \in everCreated
    /\ lookup.id \in notFound
    /\ \E i \in DOMAIN sessions : LookupResult(sessions, now, i) = "Found"

\* ---------------------------------------------------- session ids (C11, C12)
\* C12 (as claimed): no two create calls are assigned the same id: the ids
\* returned by create_merge_session / create_hls_session, in the order of
\* the calls, are pairwise different.
C12_IdsNeverReused ==
    \A i, j \in 1..Len(created) : i # j => created[i] # created[j]

\* the step is a create call that stores its session under id
CreatedAs(id) == Len(created') > Len(created) /\ created'[Len(created')] = id

\* the step is a lookup of id that found its entry older than the TTL
ExpiringLookup(id) ==
    /\ lookup'.id = id
    /\ lookup'.result = "NotFound"
    /\ now - sessions[id] > SESSION_TTL_SEC

\* C11 (as claimed): an entry leaves the session table only in a lookup of
\* its id that finds its TTL elapsed, and no create call stores a session
\* under the id of an existing entry.
C11_OnlyExpiringLookupRemoves ==
    [][\A id \in DOMAIN sessions :
          /\ id \notin DOMAIN sessions' => ExpiringLookup(id)
          /\ ~CreatedAs(id)]_vars

\* ------------------------------------------ backpressure and failure (C14-C20)
\* the broadcaster is inside q.put() on consumer c's queue, which is full
BlockedOn(c) ==
    /\ bPc = "fanout"
    /\ bPending # <<>>
    /\ Head(bPending) = c
    /\ Len(q[c]) >= ConsumerQueueMaxsize

\* C14 (as claimed, in the form a finite run refutes): an unregistered
\* consumer does not hold the broadcaster up: the broadcaster is never
\* waiting to put onto the full queue of a consumer that has unregistered,
\* a queue nothing will ever take from again.
C14_UnregisteredNeverBlocks ==
    \A c \in Consumers : ~(BlockedOn(c) /\ cPc[c] = "done")

NoOutput == prodPc \in {"finally", "done"} /\ ChunksOf(emitted) = <<>>

C20_FailureKeepsChunks ==
    /\ [](bPc = "done" =>
            /\ Last(emitted) = None
            /\ relayed = ChunksOf(emitted)
            /\ buffer_list = LongestFit(relayed)
            /\ \A c \in Consumers :
                  (cPc[c] = "live" /\ joinedLive[c]) =>
                     Enq(c) = ReplayAt(c) \o SubSeq(emitted, joinAt[c] + 1, Len(emitted)))
    /\ [](spawned <= 1)
    /\ [][(prodPc \in {"finally", "done"}) =>
            (prodPc' \in {"finally", "done"} /\ spawned' = spawned)]_vars

\* the process ended after one full block; a consumer registered from the
\* start was given the block and the marker, and the block is in the buffer
C20_Witness ==
    \E c \in Consumers :
        /\ bPc = "done"
        /\ Len(relayed) = 1
        /\ relayed[1].len = READ_SIZE
        /\ buffer_list = relayed
        /\ cPc[c] = "live"
        /\ Enq(c) = <<relayed[1], None>>

\* ------------------------------------------------- wait_hls_prewarm (C16)
\* C16 (as claimed): wait_hls_prewarm returns true if and only if the replay
\* buffer held min_bytes before the deadline passed.
C16_TrueIffFilledBeforeDeadline ==
    /\ (hPc = "true" /\ hDeadline = "passed") => filledBefore
    /\ (hPc = "false" /\ hDeadline = "passed") => ~filledBefore

\* C16 (as amended): wait_hls_prewarm returns true only when a poll it began
\* before the deadline summed at least min_bytes in the buffer; it returns
\* false only once the deadline has passed (or the session is not in the
\* table), its polls having found less.
C16_PollDecides ==
    /\ hPc = "true" =>
          /\ hTotal >= PREWARM_MIN_BYTES
          /\ hDeadline # "unset"
    /\ hPc = "false" =>
          /\ hTotal < PREWARM_MIN_BYTES
          /\ hDeadline \in {"passed", "unset"}
          /\ hDeadline = "unset" => expired

\* the wait returned false after a poll that found too little, and the
\* buffer had filled by the time the deadline passed
C16_Witness ==
    /\ hPc = "false"
    /\ hDeadline = "passed"
    /\ filledBefore
    /\ hTotal < PREWARM_MIN_BYTES
    /\ buffer_list # <<>>

\* --------------------- wait_first_chunk_merge and delivery (C13, C17, C18)
\* C13 (as claimed): when a delivery stream has exited, its queue is not in
\* the session's consumer list.
C13_ExitedIsUnregistered ==
    \A c \in Consumers : wPc[c] = "exited" => ~ListHas(consumers, c)

\* what the caller of wait_first_chunk_merge has in hand: the prefix, then
\* what the delivery stream yielded after it
Got(c) == prefix[c] \o delivered[c]

\* C17 (as claimed): the prefix followed by the chunks the delivery stream
\* yields is the run of chunks taken from the consumer's queue, none missing:
\* every chunk that has left the queue is in the prefix or was yielded.
C17_NoChunkLost ==
    \A c \in Consumers :
        wPc[c] \in {"wait", "ready", "deliver", "exited"} => Got(c) = ChunksOf(recv[c])

\* C18: wait_first_chunk_merge ends in NotReady or with a prefix, on a
\* timeout as on any other path.  NotReady is returned exactly when it has
\* no chunk, and then its queue is not in the consumer list, the other
\* entries of the list being untouched; a prefix is returned with at least
\* one chunk, all the chunks taken from the queue so far, and the queue
\* still registered.
C18_NotReadyIffNoChunk ==
    /\ [](\A c \in Consumers :
            /\ wPc[c] = "notready" =>
                  /\ prefix[c] = <<>>
                  /\ ~ListHas(consumers, c)
                  /\ cPc[c] \in {"idle", "done"}
            /\ wPc[c] = "ready" =>
                  /\ prefix[c] # <<>>
                  /\ cPc[c] = "live"
                  /\ ListHas(consumers, c))
    /\ [][\A c \in Consumers :
            /\ (wPc[c] = "wait" /\ wPc'[c] = "notready") =>
                  consumers' = ListRemove(consumers, c)
            /\ (wPc[c] = "wait" /\ wPc'[c] = "ready") =>
                  (prefix'[c] = ChunksOf(recv'[c]) /\ consumers' = consumers)
            /\ (wPc[c] = "wait" /\ q[c] = <<>> /\ orphan'[c] /\ ~orphan[c]) =>
                  wPc'[c] \in {"notready", "ready"}]_vars

\* one call timed out with no chunk and returned NotReady, another timed out
\* with less than min_buffer_bytes and returned its partial prefix
C18_Witness ==
    \E c, d \in Consumers :
        /\ wPc[c] = "notready"
        /\ orphan[c]
        /\ cPc[c] = "done"
        /\ wPc[d] = "ready"
        /\ orphan[d]
        /\ SumLen(prefix[d]) < FIRST_MIN_BYTES

\* ------------------------------------------------ lock discipline (C22)
\* C22 (as claimed): the consumer list changes only in a step of a thread
\* that holds buffer_lock, and so does the replay buffer: registration and
\* unregistration are made by a consumer's thread inside `with buffer_lock`,
\* append and eviction by the broadcaster inside `with buffer_lock`.
C22_MutationsUnderLock ==
    [][/\ (consumers' # consumers) =>
             \E c \in Consumers : ConsumerThread(c) \in (buffer_lock \cup buffer_lock')
       /\ (buffer_list' # buffer_list) =>
             BroadcasterThread \in (buffer_lock \cup buffer_lock')]_vars

C25_NothingAfterFinish ==
    [][bPc = "done" =>
          /\ \A c \in Consumers : ListHas(consumers', c) => ListHas(consumers, c)
          /\ \A c \in Consumers : Enq(c)' = Enq(c)]_vars

\* ------------------------------------------------- bounded queues (C29)
\* C29: the producer-to-broadcaster queue never holds more than its maxsize
\* and no consumer queue more than its own; the chunks emitted and not yet
\* relayed are those in the queue and the one in the broadcaster's hand; and
\* while the queue is full the producer emits nothing.
C29_InFlightBounded ==
    /\ [](/\ Len(broadcast_queue) <= PREWARM_QUEUE_MAXSIZE
          /\ \A c \in Consumers : Len(q[c]) <= ConsumerQueueMaxsize
          /\ Len(ChunksOf(emitted)) - Len(relayed) <= PREWARM_QUEUE_MAXSIZE + 1)
    /\ [][Len(broadcast_queue) >= PREWARM_QUEUE_MAXSIZE => emitted' = emitted]_vars

\* the broadcaster is in the middle of a fan-out with a chunk in hand, the
\* queue from the producer is full, and the producer waits to put onto it
C29_Witness ==
    /\ bPc = "fanout"
    /\ bPending # <<>>
    /\ bChunk # None
    /\ Len(broadcast_queue) = PREWARM_QUEUE_MAXSIZE
    /\ prodPc = "finally"
    /\ \E c \in Consumers : q[c] # <<>>

\* ------------------------------------------------- requested flag (C24)
\* C24 (as claimed): the flag is true in every state in which a consumer has
\* registered on the session or a delivery stream has been opened against it.
C24_RequestedOnceUsed ==
    ((\E c \in Consumers : Registered(c)) \/ (\E s \in Streams : sPc[s] # "idle"))
        => requested

\* ----------------------------------------------- silence timeout (C21)
\* the step is the silence timeout of consumer c's delivery stream
TimeoutStep(c) == wPc[c] = "deliver" /\ q[c] = <<>> /\ wPc'[c] = "exited"

\* C21: the silence timeout of one delivery stream removes that stream's
\* queue from the consumer list and ends that stream, and leaves alone the
\* session table, the replay buffer, the lock, the producer, the
\* broadcaster, and every other consumer's queue, membership and stream.
C21_TimeoutEndsOnlyItself ==
    [][\A c \in Consumers :
          TimeoutStep(c) =>
             /\ consumers' = ListRemove(consumers, c)
             /\ q' = q
             /\ \A d \in Consumers \ {c} :
                   /\ recv'[d] = recv[d]
                   /\ cPc'[d] = cPc[d]
                   /\ wPc'[d] = wPc[d]
                   /\ ListHas(consumers', d) = ListHas(consumers, d)
             /\ prodVars' = prodVars
             /\ bcastVars' = bcastVars
             /\ buffer_lock' = buffer_lock
             /\ tableVars' = tableVars
             /\ expired' = expired]_vars

\* a stream whose wait had returned a full prefix ended by the silence
\* timeout, while another stream of the session is being served
C21_Witness ==
    \E c, d \in Consumers :
        /\ wPc[c] = "exited"
        /\ orphan[c]
        /\ SumLen(prefix[c]) >= FIRST_MIN_BYTES
        /\ cPc[c] = "done"
        /\ wPc[d] = "deliver"
        /\ ListHas(consumers, d)
        /\ q[d] # <<>>

\* ------------------------------------------- GET /stream/{id} (C26)
\* C26 (as claimed): a GET for an unknown or expired id is answered 404 and
\* starts no delivery stream; a GET for a live id is answered without any
\* advertisement of range support and with caching disabled.
C26_NotFoundOrPlainStream ==
    /\ response.status \in {0, 200, 404}
    /\ response.status = 404 =>
          (lookup.result = "NotFound" /\ ~response.streaming)
    /\ response.status = 200 =>
          /\ lookup.result = "Found"
          /\ response.accept_ranges = "absent"
          /\ response.cache_control = "no-store"

\* ------------------------------------------- sessions and the event loop (C28)
\* C28 (as claimed): while this session's broadcaster is blocked on a full
\* consumer queue, holding this session's lock, the prewarm wait of another
\* session is never held up: whenever that coroutine is ready to run, either
\* the event loop can run it or the coroutine the loop is executing can go on.
C28_OtherSessionUndelayed ==
    (oPc = "ready" /\ \E c \in Consumers : BlockedOn(c)) =>
        (ENABLED OtherPoll \/ ENABLED PrewarmCheck \/ ENABLED PrewarmSum)

\* ------------------------------------------- a session without consumers (C30)
\* the producer has put its marker, the broadcaster has taken it and ended,
\* every chunk went through the replay buffer, and the buffer holds the
\* longest suffix of them that fits under the ceiling
Drained ==
    /\ prodPc = "done"
    /\ bPc = "done"
    /\ EndsWithNone(emitted)
    /\ broadcast_queue = <<>>
    /\ relayed = ChunksOf(emitted)
    /\ buffer_list = LongestFit(relayed)

\* C30: with no consumer registered during the whole run, the session does
\* not stall: the broadcaster drains every chunk into the replay buffer,
\* dropping what falls beyond the ceiling, and the producer emits its
\* terminal marker, given that the external process ends.
C30_DrainsWithoutConsumers ==
    /\ [](consumers = <<>>)
    /\ <>[]Drained

\* the run is over with nobody registered, the process wrote all it could,
\* and the oldest of it was dropped from the replay buffer
C30_Witness ==
    /\ Drained
    /\ consumers = <<>>
    /\ Len(relayed) = MaxChunks
    /\ Len(buffer_list) < Len(relayed)

\* ------------------------------------------- delivery streams are finite (C27)
\* the broadcaster waits for room on the queue of a consumer that has left,
\* inside `with buffer_lock`, and the event-loop thread waits for that lock
\* inside wait_hls_prewarm
Wedged ==
    /\ hPc = "sum"
    /\ \E c \in Consumers : BlockedOn(c) /\ cPc[c] = "done"

\* neither wait ever ends, and no delivery stream moves again
WedgedForEver ==
    [][Wedged => (Wedged' /\ sPc' = sPc /\ yielded' = yielded)]_vars

\* C27 (as claimed, in the form a finite run refutes): an opened delivery
\* stream whose external process has ended is never left unable to end: it
\* can take the marker or the next chunk from its queue, or time out on the
\* empty queue.
C27_OpenStreamCanEnd ==
    \A s \in Streams :
        (sPc[s] = "open" /\ rPc[s] = "done" /\ Wedged) =>
            (ENABLED StreamYield(s) \/ ENABLED StreamTimeout(s))

\* ------------------------------------------- concurrent lookups (C31)
\* C31 (as claimed): the session table is synchronized: when two threads
\* look up the same TTL-expired id at once, both calls return NotFound and
\* neither raises.
C31_NoLookupRaises ==
    \A t \in Threads : lkRes[t] \in {"none", "Found", "NotFound"}

\* ------------------------------------------- the deadline of the first wait (C32)
\* one wait of wait_first_chunk_merge's loop ends: with an item, or with
\* asyncio.TimeoutError
WaitEnds(c) ==
    /\ wPc[c] = "wait"
    /\ cPc[c] = "live"
    /\ (recv'[c] # recv[c] \/ wPc'[c] # "wait")

\* C32 (as claimed): once the deadline has passed, the first wait that ends
\* is the last: wait_first_chunk_merge returns then, also when the wait
\* ended with a chunk and the total is still below min_buffer_bytes.
C32_ReturnsAtFirstLateWait ==
    [][\A c \in Consumers : (wLate[c] /\ WaitEnds(c)) => (wPc'[c] # "wait")]_vars

\* ------------------------------------------- the marker after the prefix (C33)
\* C33 (as claimed, in the form a finite run refutes): a delivery stream
\* that continues from the prefix and queue of wait_first_chunk_merge ends
\* on the terminal marker: once the broadcaster has passed the marker on and
\* stopped, the marker is on the queue of every such stream still open, for
\* a consumer registered while the broadcaster was running.
C33_MarkerAwaitsDelivery ==
    \A c \in Consumers :
        (wPc[c] = "deliver" /\ joinedLive[c] /\ bPc = "done") =>
            \E i \in 1..Len(q[c]) : q[c][i] = None

\* ------------------------------------------- registration completes (C34)
\* the replay buffer never holds more chunks than a new consumer queue
\* takes: every chunk but the last is a full read, so the ceiling allows
\* BROADCAST_BUFFER_BYTES \div READ_SIZE of them, and one short one
BufferFitsQueue ==
    /\ Len(buffer_list) <= (BROADCAST_BUFFER_BYTES \div READ_SIZE) + 1
    /\ (BROADCAST_BUFFER_BYTES \div READ_SIZE) + 1 <= ConsumerQueueMaxsize
    /\ (2097152 \div 65536) + 1 <= 128 * 2

\* the lock is held by a broadcaster that waits on the queue of a consumer
\* that has unregistered: it is never released
LockHeldForEver ==
    /\ BroadcasterThread \in buffer_lock
    /\ \E d \in Consumers : BlockedOn(d) /\ cPc[d] = "done"

\* C34 (as claimed, in the form a finite run refutes): _register_consumer
\* always completes: the next call is never made in a state in which it
\* cannot get through `with buffer_lock`, the seeding and the append.
C34_RegistrationCompletes ==
    \A c \in Consumers :
        (cPc[c] = "idle" /\ \A d \in Consumers : d < c => cPc[d] # "idle") =>
            ~LockHeldForEver

\* ------------------------------------------- after unregister (C35)
\* C35 (as claimed): once a consumer's unregister callback has returned, the
\* broadcaster puts nothing more on that consumer's queue, neither a chunk
\* nor the terminal marker.
C35_NothingAfterUnregister ==
    [][\A c \in Consumers : (cPc[c] = "done") => (Enq(c)' = Enq(c))]_vars

\* ------------------------------------------- the activity log (C36)
\* the last n elements of s, all of s when it has fewer
LastN(s, n) == SubSeq(s, Len(s) - (IF n < Len(s) THEN n ELSE Len(s)) + 1, Len(s))

\* the log holds the most recent min(n, _MAX_ENTRIES) entries, oldest first
LogIsRecent ==
    /\ Len(entries) <= MAX_ENTRIES
    /\ entries = LastN(logged, MAX_ENTRIES)

\* C36 (as claimed): the log never holds more than _MAX_ENTRIES entries, the
\* most recent ones in insertion order, and get(limit) returns exactly the
\* min(limit, size) most recent entries, newest first, for every limit >= 0.
C36_BoundedAndGetRecent ==
    /\ LogIsRecent
    /\ got.out = Reverse(LastN(got.of, got.limit))

\* ------------------------------------------- credential storage (C37)
\* the keys stored for an identifier: none when nothing is stored, the key
\* "credentials" for a legacy string
StoredItems(creds, id) ==
    IF id \notin DOMAIN creds THEN EmptyDict
    ELSE IF creds[id].kind = "str" THEN DictPut(EmptyDict, "credentials", creds[id].v)
    ELSE creds[id].items

\* C37: save(identifier, credentials) with a dict merges into what is stored
\* for that identifier: stored keys absent from the new dict keep their
\* values, the keys of the new dict take the new values, no other key
\* appears, other identifiers are unchanged; and a storage built from
\* to_json() holds the same credentials.
C37_SaveMergesAndRoundTrips ==
    /\ (stOp.name = "save" /\ stOp.arg.kind = "dict") =>
          LET old == StoredItems(stOp.before, stOp.id)
              new == stOp.arg.items
          IN /\ stOp.id \in DOMAIN credentials
             /\ credentials[stOp.id].kind = "dict"
             /\ DOMAIN credentials[stOp.id].items = (DOMAIN old) \cup (DOMAIN new)
             /\ \A k \in DOMAIN new : credentials[stOp.id].items[k] = new[k]
             /\ \A k \in (DOMAIN old) \ (DOMAIN new) : credentials[stOp.id].items[k] = old[k]
             /\ DOMAIN credentials = (DOMAIN stOp.before) \cup {stOp.id}
             /\ \A i \in (DOMAIN stOp.before) \ {stOp.id} : credentials[i] = stOp.before[i]
    /\ stOp.name = "reload" => credentials = stOp.before
    /\ FromJson(ToJson(credentials)) = credentials

\* Companion credentials were saved for a device that had AirPlay
\* credentials and another device is stored too
C37_Witness ==
    /\ stOp.name = "save"
    /\ stOp.arg.kind = "dict"
    /\ DOMAIN stOp.arg.items = {"companion"}
    /\ stOp.id \in DOMAIN stOp.before
    /\ stOp.before[stOp.id].kind = "dict"
    /\ DOMAIN stOp.before[stOp.id].items = {"airplay"}
    /\ DOMAIN credentials[stOp.id].items = {"airplay", "companion"}
    /\ DOMAIN stOp.before # {stOp.id}

\* ------------------------------------------- the default device (C38)
\* C38: after any sequence of add, set-default, update and delete requests
\* there is at most one default-device row, and it names a device of the
\* device table; deleting the default device leaves no default, and a
\* refused request changes nothing.
C38_OneValidDefault ==
    /\ Cardinality(defaults) <= 1
    /\ defaults \subseteq DOMAIN devices
    /\ (devOp.name = "delete" /\ devOp.ok /\ devOp.id \in devOp.before) => defaults = {}
    /\ (devOp.name = "default" /\ devOp.ok) => defaults = {devOp.id}
    /\ ~devOp.ok => defaults = devOp.before
    /\ devOp.name = "get" =>
          devOp.id = (IF defaults = {} THEN 0 ELSE CHOOSE row \in defaults : TRUE)

\* the default device was deleted while another device stays stored
C38_Witness ==
    /\ devOp.name = "delete"
    /\ devOp.ok
    /\ devOp.before = {devOp.id}
    /\ defaults = {}
    /\ devices # EmptyDict

====
